---- MODULE Spec2Model ----
(***************************************************************************)
(* Verification model of the Claude Code provider extension:               *)
(*   - runClaudeCode  (src/src/claude-cli.ts): the CLI process adapter, an *)
(*     async generator that spawns the agent subprocess and translates its *)
(*     NDJSON standard output into CLI stream events;                      *)
(*   - streamChat     (src/unnamed/part_002, the provider): one chat turn, *)
(*     which consumes runClaudeCode, keeps the session map and owns the    *)
(*     tool relay of the turn;                                             *)
(*   - startToolRelay (src/src/mcp-bridge.ts): the result queue and the    *)
(*     waiter list behind waitForResult.                                   *)
(*                                                                         *)
(* An async generator is modelled by its frame: a record holding its local *)
(* variables and the place it is suspended at.  A step of the model runs a *)
(* generator from one suspension point (a yield or an await) to the next.  *)
(***************************************************************************)
EXTENDS Naturals, Sequences, FiniteSets, TLC

\* ------------------------------------------------------------------ bounds
\* Longest standard output (in lines) of a subprocess under Spec.
MaxLines == 3
\* Longest standard output (in lines) of a subprocess under SpecChat.
MaxChatLines == 2
\* Longest standard output (in lines) of a subprocess under SpecTurns.
MaxTurnLines == 1
\* Longest standard output (in lines) of a subprocess under SpecTools.
MaxToolLines == 1
\* Most lines the sockets of a relay deliver under SpecRelay.
MaxRecords == 2
\* Most calls of waitForResult under SpecRelay.
MaxCalls == 2
\* Most lines the bridge program reads from its standard input under
\* SpecBridge, and most lines the connections of its calls deliver.
MaxBridgeLines == 2
MaxResponses == 1
\* The same under SpecBridgeLive.
MaxLiveLines == 1
MaxLiveResponses == 2
\* The most result records a subprocess writes under SpecResult.
MaxResultLines == 1
\* Longest stream (in bytes) that readLines reads under SpecLines.
MaxBytes == 3
MaxMessages == 2

\* ------------------------------------------------------------- JS values
\* The JavaScript value undefined (an absent field, an unset variable).
Undefined == "undefined"

\* if (x): the empty string and undefined are falsy.
Truthy(x) == x # Undefined /\ x # ""

\* a || b on strings.
OrElse(a, b) == IF Truthy(a) THEN a ELSE b

SeqsUpTo(S, n) == UNION {[1..k -> S] : k \in 0..n}

Last(s) == s[Len(s)]

\* ----------------------------------------------- subprocess output lines
\* One line of the subprocess's standard output.  raw tells what the text
\* of the line is: only white space, text that JSON.parse rejects, the JSON
\* value null, or a JSON object.  The other fields are the object's fields
\* the adapter reads (Undefined when the field is absent), and long tells
\* whether the serialization of the object has more than 500 characters.
JsonObject ==
  [raw |-> "object", type |-> Undefined, subtype |-> Undefined,
   session_id |-> Undefined, delta |-> Undefined, text |-> "",
   content |-> <<>>, hasContent |-> FALSE, is_error |-> FALSE,
   hasUsage |-> FALSE, input_tokens |-> 0, output_tokens |-> 0,
   result |-> "", error |-> "", long |-> FALSE]

BlankLine == [JsonObject EXCEPT !.raw = "blank"]
NonJsonLine == [JsonObject EXCEPT !.raw = "nonjson"]
NullLine == [JsonObject EXCEPT !.raw = "null"]

InitRecord(sid) ==
  [JsonObject EXCEPT !.type = "system", !.subtype = "init", !.session_id = sid]

UnknownRecord == [JsonObject EXCEPT !.type = "user"]

DeltaRecord(dtype, txt) ==
  [JsonObject EXCEPT !.type = "content_block_delta", !.delta = dtype, !.text = txt]

\* A tool name is kept as its parts: the prefix the CLI gives the tools of
\* the MCP server stina-tools, when it has it, and the rest of the name.
MCP_PREFIX == "mcp__stina-tools__"
BridgedTool(id) == <<MCP_PREFIX, id>>
BuiltinTool(id) == <<id>>
\* name.startsWith(MCP_PREFIX) and name.slice(MCP_PREFIX.length)
StartsWithPrefix(name) == Len(name) >= 1 /\ name[1] = MCP_PREFIX
StripPrefix(name) == Tail(name)

\* A content block of an assistant message.
Block(btype, txt, id, name) ==
  [type |-> btype, text |-> txt, id |-> id, name |-> name]
TextBlock(txt) == Block("text", txt, "", <<>>)
ToolUseBlock(id, name) == Block("tool_use", "", id, name)
ThinkingBlock == Block("thinking", "", "", <<>>)

AssistantRecord(blocks) ==
  [JsonObject EXCEPT !.type = "assistant", !.hasContent = TRUE, !.content = blocks]

ResultRecord(subtype, isError, hasUsage, inTok, outTok, res, err) ==
  [JsonObject EXCEPT !.type = "result", !.subtype = subtype, !.is_error = isError,
                     !.hasUsage = hasUsage, !.input_tokens = inTok,
                     !.output_tokens = outTok, !.result = res, !.error = err]

\* ------------------------------------------------------ CLI stream events
\* CliStreamEvent (and the provider's StreamEvent, which adds tool_end).
Event(type) ==
  [type |-> type, text |-> "", name |-> <<>>, toolCallId |-> "",
   sessionId |-> Undefined, hasUsage |-> FALSE, inputTokens |-> 0,
   outputTokens |-> 0, output |-> "", message |-> <<>>]

ContentEvent(txt) == [Event("content") EXCEPT !.text = txt]
ThinkingEvent(txt) == [Event("thinking") EXCEPT !.text = txt]
ToolStartEvent(name, id) ==
  [Event("tool_start") EXCEPT !.name = name, !.toolCallId = id]
SessionInitEvent(sid) == [Event("session_init") EXCEPT !.sessionId = sid]
ErrorEvent(msg) == [Event("error") EXCEPT !.message = msg]
DoneEvent(hasUsage, inTok, outTok, sid) ==
  [Event("done") EXCEPT !.hasUsage = hasUsage, !.inputTokens = inTok,
                        !.outputTokens = outTok, !.sessionId = sid]

IsTerminal(e) == e.type \in {"done", "error"}

\* ------------------------------------------------- runClaudeCode: options
\* ClaudeCliOptions, the fields that vary between invocations.  The prompt,
\* the model and the turn budget are fixed strings here.
Options(sessionId, mcpConfigPath, hasAllowedTools, allowedTools) ==
  [sessionId |-> sessionId, mcpConfigPath |-> mcpConfigPath,
   hasAllowedTools |-> hasAllowedTools, allowedTools |-> allowedTools]

NoOptions == Options(Undefined, Undefined, FALSE, <<>>)

\* BuildArgs with the resume flag pushed only inside the mcp-config branch.
BuildArgsResumeWithConfig(opts, isRoot) ==
  <<"-p", "prompt", "--output-format", "stream-json", "--verbose",
    "--model", "model", "--max-turns", "maxTurns">>
  \o (IF ~isRoot THEN <<"--dangerously-skip-permissions">> ELSE <<>>)
  \o (IF Truthy(opts.mcpConfigPath)
        THEN (IF Truthy(opts.sessionId) THEN <<"--resume", opts.sessionId>> ELSE <<>>)
             \o <<"--mcp-config", opts.mcpConfigPath>>
        ELSE <<>>)
  \o (IF opts.hasAllowedTools /\ Len(opts.allowedTools) > 0
        THEN <<"--allowedTools">> \o opts.allowedTools \o <<"mcp__stina-tools__*">>
        ELSE <<>>)

\* The argument list handed to spawn.
BuildArgs(opts, isRoot) ==
  <<"-p", "prompt", "--output-format", "stream-json", "--verbose",
    "--model", "model", "--max-turns", "maxTurns">>
  \o (IF ~isRoot THEN <<"--dangerously-skip-permissions">> ELSE <<>>)
  \o (IF Truthy(opts.sessionId) THEN <<"--resume", opts.sessionId>> ELSE <<>>)
  \o (IF Truthy(opts.mcpConfigPath)
        THEN <<"--mcp-config", opts.mcpConfigPath>> ELSE <<>>)
  \o (IF opts.hasAllowedTools /\ Len(opts.allowedTools) > 0
        THEN <<"--allowedTools">> \o opts.allowedTools \o <<"mcp__stina-tools__*">>
        ELSE <<>>)

\* --------------------------------------------------- runClaudeCode: frame
\* pc: "none"           runClaudeCode has not been called
\*     "suspendedStart" the generator exists, its body has not started
\*     "readLine"       awaiting the next line of stdoutIterator
\*     "yielded"        suspended at a yield inside the for-await loop
\*     "yieldedLast"    suspended at a yield after which the body ends
\*     "awaitExit"      awaiting exitPromise
\*     "completed"      the body ran to its end
\*     "abandoned"      the consumer's return() ended it at an earlier point
\* pos is the number of stdout lines read, blocks the content blocks of the
\* current assistant record still to visit, out the events yielded so far.
\* src records, for each event of out, the line and block that caused it.
NoFrame ==
  [pc |-> "none", opts |-> NoOptions, args |-> <<>>, pos |-> 0,
   blocks |-> <<>>, blockNo |-> 0, out |-> <<>>, src |-> <<>>,
   sessionId |-> Undefined]

\* yield e: the event is handed to the consumer and the body is suspended.
Yield(f, e, tag, last) ==
  [f EXCEPT !.out = Append(@, e), !.src = Append(@, tag),
            !.pc = IF last THEN "yieldedLast" ELSE "yielded"]

\* CatchError inside the loop: the error is yielded and the loop goes on.
CatchErrorGoesOn(f) == Yield(f, ErrorEvent(<<"TypeError">>), <<f.pos, 0>>, FALSE)

\* An exception inside the try block: the catch clause yields one error.
CatchError(f) == Yield(f, ErrorEvent(<<"TypeError">>), <<f.pos, 0>>, TRUE)

\* AssistantBlocks visiting the blocks from the last to the first.
RECURSIVE AssistantBlocksLastFirst(_)
AssistantBlocksLastFirst(f) ==
  IF f.blocks = <<>> THEN [f EXCEPT !.pc = "readLine"]
  ELSE LET n == Len(f.blocks)
           b == f.blocks[n]
           g == [f EXCEPT !.blocks = SubSeq(@, 1, n - 1), !.blockNo = n]
       IN IF b.type = "text"
            THEN Yield(g, ContentEvent(b.text), <<g.pos, n>>, FALSE)
          ELSE IF b.type = "tool_use"
            THEN Yield(g, ToolStartEvent(b.name, b.id), <<g.pos, n>>, FALSE)
          ELSE AssistantBlocksLastFirst(g)

\* for (const block of event.message.content): runs to the next yield, or
\* back to the for-await loop when no block is left.
RECURSIVE AssistantBlocks(_)
AssistantBlocks(f) ==
  IF f.blocks = <<>> THEN [f EXCEPT !.pc = "readLine"]
  ELSE LET b == Head(f.blocks)
           g == [f EXCEPT !.blocks = Tail(@), !.blockNo = @ + 1]
       IN IF b.type = "text"
            THEN Yield(g, ContentEvent(b.text), <<g.pos, g.blockNo>>, FALSE)
          ELSE IF b.type = "tool_use"
            THEN Yield(g, ToolStartEvent(b.name, b.id), <<g.pos, g.blockNo>>, FALSE)
          ELSE AssistantBlocks(g)

\* JSON.stringify(resultAny), and s.slice(0, 500) of such a text: the text
\* itself when it has no more than 500 characters, else its first 500.
Stringify(line) == IF line.long THEN "json:long" ELSE "json"
Slice500(s) == IF s = "json:long" THEN "json:long[0,500)" ELSE s

\* ResultEvent making the zero-token check before the error check.
ResultEventZeroCheckFirst(f, line) ==
  IF line.hasUsage /\ line.input_tokens = 0 /\ line.output_tokens = 0
    THEN ErrorEvent(<<"Claude Code returned empty result (0 tokens)">>)
  ELSE IF line.is_error \/ (Truthy(line.subtype) /\ line.subtype # "success")
    THEN ErrorEvent(<<"Claude Code: ",
                      OrElse(line.result, OrElse(line.error, Slice500(Stringify(line))))>>)
  ELSE DoneEvent(line.hasUsage, line.input_tokens, line.output_tokens, f.sessionId)

\* ResultEvent taking a result without usage for a silent failure.
ResultEventUsageRequired(f, line) ==
  IF line.is_error \/ (Truthy(line.subtype) /\ line.subtype # "success")
    THEN ErrorEvent(<<"Claude Code: ",
                      OrElse(line.result, OrElse(line.error, Slice500(Stringify(line))))>>)
  ELSE IF ~line.hasUsage \/ (line.input_tokens = 0 /\ line.output_tokens = 0)
    THEN ErrorEvent(<<"Claude Code returned empty result (0 tokens)">>)
  ELSE DoneEvent(line.hasUsage, line.input_tokens, line.output_tokens, f.sessionId)

\* ResultEvent looking at the subtype only, not at is_error.
ResultEventSubtypeOnly(f, line) ==
  IF Truthy(line.subtype) /\ line.subtype # "success"
    THEN ErrorEvent(<<"Claude Code: ",
                      OrElse(line.result, OrElse(line.error, Slice500(Stringify(line))))>>)
  ELSE IF line.hasUsage /\ line.input_tokens = 0 /\ line.output_tokens = 0
    THEN ErrorEvent(<<"Claude Code returned empty result (0 tokens)">>)
  ELSE DoneEvent(line.hasUsage, line.input_tokens, line.output_tokens, f.sessionId)

\* ResultEvent without the zero-token check.
ResultEventNoZeroCheck(f, line) ==
  IF line.is_error \/ (Truthy(line.subtype) /\ line.subtype # "success")
    THEN ErrorEvent(<<"Claude Code: ",
                      OrElse(line.result, OrElse(line.error, Slice500(Stringify(line))))>>)
  ELSE DoneEvent(line.hasUsage, line.input_tokens, line.output_tokens, f.sessionId)

\* The result record: error, silent failure, or done.
ResultEvent(f, line) ==
  IF line.is_error \/ (Truthy(line.subtype) /\ line.subtype # "success")
    THEN ErrorEvent(<<"Claude Code: ",
                      OrElse(line.result, OrElse(line.error, Slice500(Stringify(line))))>>)
  ELSE IF line.hasUsage /\ line.input_tokens = 0 /\ line.output_tokens = 0
    THEN ErrorEvent(<<"Claude Code returned empty result (0 tokens)">>)
  ELSE DoneEvent(line.hasUsage, line.input_tokens, line.output_tokens, f.sessionId)

\* Skipped without the try around JSON.parse: only blank lines are skipped.
SkippedBlankOnly(line) == line.raw = "blank"

\* A line that JSON.parse rejects, or that is only white space.
Skipped(line) == line.raw \in {"blank", "nonjson"}

\* The body of the for-await loop for one line.
ProcessLine(f, line) ==
  LET g == [f EXCEPT !.pos = @ + 1] IN
  IF Skipped(line) THEN g
  ELSE IF line.raw # "object" THEN CatchError(g)
  ELSE IF line.type = "system" /\ line.subtype = "init"
    THEN Yield([g EXCEPT !.sessionId = line.session_id],
               SessionInitEvent(line.session_id), <<g.pos, 0>>, FALSE)
  ELSE IF line.type = "content_block_delta"
    THEN IF line.delta = Undefined THEN CatchError(g)
         ELSE IF line.delta = "text_delta"
           THEN Yield(g, ContentEvent(line.text), <<g.pos, 0>>, FALSE)
         ELSE IF line.delta = "thinking_delta"
           THEN Yield(g, ThinkingEvent(line.text), <<g.pos, 0>>, FALSE)
         ELSE g
  ELSE IF line.type = "assistant"
    THEN IF ~line.hasContent THEN CatchError(g)
         ELSE AssistantBlocks([g EXCEPT !.blocks = line.content, !.blockNo = 0])
  ELSE IF line.type = "result"
    THEN Yield(g, ResultEvent(g, line), <<g.pos, 0>>, TRUE)
  ELSE g

\* The body up to the for-await loop: the child_process check, the argument
\* list, spawn.
StartGen(f, childProcessWorks, spawnOk, isRoot) ==
  IF ~childProcessWorks
    THEN Yield(f, ErrorEvent(<<"child_process is not available">>), <<0, 0>>, TRUE)
  ELSE LET g == [f EXCEPT !.args = BuildArgs(f.opts, isRoot)] IN
       IF ~spawnOk
         THEN Yield(g, ErrorEvent(<<"Failed to spawn claude CLI">>), <<0, 0>>, TRUE)
       ELSE [g EXCEPT !.pc = "readLine"]

\* ResumeGen without the return after the yield of a terminal event.
ResumeGenKeepsReading(f) ==
  IF f.pc = "yieldedLast" THEN [f EXCEPT !.pc = "readLine"]
  ELSE AssistantBlocks(f)

\* next() on a generator suspended at a yield.
ResumeGen(f) ==
  IF f.pc = "yieldedLast" THEN [f EXCEPT !.pc = "completed"]
  ELSE AssistantBlocks(f)

\* return() on a suspended generator: the body has no finally clause.
ReturnGen(f) ==
  [f EXCEPT !.pc = IF f.pc = "yieldedLast" THEN "completed" ELSE "abandoned"]

\* stdoutIterator is exhausted: the body goes on to await exitPromise.
AtEof(f) == [f EXCEPT !.pc = "awaitExit"]

\* OnExit testing if (exitCode): null counts as a clean exit.
OnExitTruthyCode(f, code, spawnError) ==
  IF code \notin {"0", "null"}
    THEN Yield(f, ErrorEvent(IF spawnError THEN <<"Spawn error">>
                             ELSE <<"Claude Code exited with code ", code>>),
               <<f.pos + 1, 0>>, TRUE)
  ELSE [f EXCEPT !.pc = "completed"]

\* exitPromise resolved with code (the string "null" for the value null).
OnExit(f, code, spawnError) ==
  IF code # "0"
    THEN Yield(f, ErrorEvent(IF spawnError THEN <<"Spawn error">>
                             ELSE <<"Claude Code exited with code ", code>>),
               <<f.pos + 1, 0>>, TRUE)
  ELSE [f EXCEPT !.pc = "completed"]

\* ------------------------------------------------------------------ state
Turns == {"t1", "t2"}

VARIABLES
  cli,        \* cli[t]: the frame of turn t's runClaudeCode generator
  child,      \* child[t]: the subprocess spawned by turn t
  chat,       \* chat[t]: the frame of turn t's streamChat generator
  relay,      \* relay[t]: the tool relay started by turn t
  sessionMap, \* conversation id -> Claude Code session id
  isRoot,     \* process.getuid() === 0
  bridge,     \* the bridge program the agent runs as its MCP server
  reader      \* the frame of a readLines generator and its stream

vars == <<cli, child, chat, relay, sessionMap, isRoot, bridge, reader>>
chatVars == <<chat, relay, sessionMap>>

\* The subprocess: everything it writes to its standard output (stdout; the
\* adapter has read the first cli[t].pos lines of it), whether the close
\* event has fired and with which code, whether the error event has fired,
\* and whether child.kill() was ever called (no statement of the source
\* calls it).
NoChild ==
  [state |-> "none", stdout |-> <<>>, exitCode |-> "0", spawnError |-> FALSE,
   killed |-> FALSE]

\* The standard outputs a subprocess may produce.
TextLines ==
  {BlankLine, NonJsonLine, NullLine,
   InitRecord("T1"),
   UnknownRecord,
   DeltaRecord("text_delta", "d1"),
   DeltaRecord("thinking_delta", "d2"),
   DeltaRecord(Undefined, ""),
   AssistantRecord(<<TextBlock("b1"), ThinkingBlock,
                     ToolUseBlock("c1", BuiltinTool("Read"))>>),
   [JsonObject EXCEPT !.type = "assistant"]}

ResultLines ==
  {ResultRecord("success", FALSE, TRUE, 3, 5, "", ""),
   ResultRecord("success", FALSE, TRUE, 0, 0, "", ""),
   ResultRecord("success", FALSE, FALSE, 0, 0, "", ""),
   ResultRecord("success", TRUE, TRUE, 3, 5, "boom", ""),
   ResultRecord("error_max_turns", FALSE, TRUE, 3, 5, "", "err"),
   ResultRecord(Undefined, FALSE, TRUE, 0, 5, "", "")}

CliLines == TextLines \cup ResultLines

\* The options runClaudeCode is called with under Spec.
CliOptions == {NoOptions, Options("T1", "cfg", TRUE, <<"Read">>)}

ExitCodes == {"0", "1", "null"}

\* ---------------------------------------------- runClaudeCode: the steps
SetFrame(t, f) == cli' = [cli EXCEPT ![t] = f]

\* const stream = runClaudeCode(options): creates the generator.
Call(t, opts) ==
  /\ cli[t].pc = "none"
  /\ SetFrame(t, [NoFrame EXCEPT !.pc = "suspendedStart", !.opts = opts])

\* The first next(): the body runs to the for-await loop, or to the yield of
\* an error when child_process does not work or spawn throws.  A spawned
\* subprocess is given the standard output it is going to write.
Start(t, lines) ==
  /\ cli[t].pc = "suspendedStart"
  /\ \E childProcessWorks \in BOOLEAN, spawnOk \in BOOLEAN :
       /\ SetFrame(t, StartGen(cli[t], childProcessWorks, spawnOk, isRoot))
       /\ IF childProcessWorks /\ spawnOk
            THEN \E out \in lines :
                   child' = [child EXCEPT ![t] =
                               [NoChild EXCEPT !.state = "running", !.stdout = out]]
            ELSE UNCHANGED child

\* next() on a generator suspended at a yield.
Resume(t) ==
  /\ cli[t].pc \in {"yielded", "yieldedLast"}
  /\ SetFrame(t, ResumeGen(cli[t]))

\* return() on a suspended generator.
Return(t) ==
  /\ cli[t].pc \in {"suspendedStart", "yielded", "yieldedLast"}
  /\ SetFrame(t, ReturnGen(cli[t]))

\* readLines yields the next line and the loop body handles it.
ReadLine(t) ==
  /\ cli[t].pc = "readLine"
  /\ cli[t].pos < Len(child[t].stdout)
  /\ SetFrame(t, ProcessLine(cli[t], child[t].stdout[cli[t].pos + 1]))
  /\ UNCHANGED <<child, isRoot, bridge, reader, chatVars>>

\* readLines ends: the subprocess closed its standard output.
ReadEof(t) ==
  /\ cli[t].pc = "readLine"
  /\ cli[t].pos = Len(child[t].stdout)
  /\ SetFrame(t, AtEof(cli[t]))
  /\ UNCHANGED <<child, isRoot, bridge, reader, chatVars>>

\* The subprocess's close event (with its exit code, "null" when a signal
\* ended it) or, for a subprocess that could not be started and so wrote
\* nothing, its error event: either resolves exitPromise.
ChildClose(t, codes) ==
  /\ child[t].state = "running"
  /\ \E code \in codes, err \in BOOLEAN :
       /\ err => (code = "null" /\ child[t].stdout = <<>>)
       /\ child' = [child EXCEPT ![t] =
                      [@ EXCEPT !.state = "closed", !.exitCode = code,
                                !.spawnError = err]]
  /\ UNCHANGED <<cli, isRoot, bridge, reader, chatVars>>

\* exitPromise is resolved: the body goes on after the await.
ExitResolved(t) ==
  /\ cli[t].pc = "awaitExit"
  /\ child[t].state = "closed"
  /\ SetFrame(t, OnExit(cli[t], child[t].exitCode, child[t].spawnError))
  /\ UNCHANGED <<child, isRoot, bridge, reader, chatVars>>

\* -------------------------------------- Spec: one run of runClaudeCode
\* A consumer that calls runClaudeCode once and then, at every suspension,
\* either asks for the next event or abandons the sequence.
ConsumerCall(t) ==
  /\ \E opts \in CliOptions : Call(t, opts)
  /\ UNCHANGED <<child, isRoot, bridge, reader, chatVars>>

ConsumerFirstNext(t) ==
  /\ Start(t, SeqsUpTo(CliLines, MaxLines))
  /\ UNCHANGED <<isRoot, bridge, reader, chatVars>>

\* The first next() under SpecResult.
ResultFirstNext(t, outputs) ==
  /\ Start(t, outputs)
  /\ UNCHANGED <<isRoot, bridge, reader, chatVars>>

ConsumerNext(t) ==
  /\ Resume(t)
  /\ UNCHANGED <<child, isRoot, bridge, reader, chatVars>>

ConsumerReturn(t) ==
  /\ Return(t)
  /\ UNCHANGED <<child, isRoot, bridge, reader, chatVars>>

\* ------------------------------------------------------ the tool relay
\* startToolRelay's closure: the listener (state), the result queue and the
\* waiter list; closeCalls counts the calls of close().  The rest is the
\* record of what the relay did:
\*   received  the lines its sockets delivered, with their connection
\*   requests  the calls of tools.execute, one per execute record handled,
\*             with the connection and correlation id of the record, the
\*             tool call of the agent that caused it (call, Undefined for a
\*             client that is not the bridge of a tool call) and the outcome
\*   written   the records written to sockets, each with the request whose
\*             handler wrote it
\*   handed    the arguments of onToolResult, in the order of the calls
\*   calls     the calls of waitForResult and what became of their promises
\*   errored   the connections whose socket emitted an error
\*   logged    the number of calls of log.error
NoRelay ==
  [state |-> "none", closeCalls |-> 0, resultQueue |-> <<>>,
   resultWaiters |-> <<>>, received |-> <<>>, requests |-> <<>>,
   written |-> <<>>, handed |-> <<>>, calls |-> <<>>, errored |-> {},
   logged |-> 0]

\* The values tools.execute resolves with.
ToolResults == {"r1", "r2"}

\* A line on a relay socket: only white space, text that JSON.parse rejects,
\* the JSON value null, or a JSON object with the fields the relay reads.
RelayObject ==
  [raw |-> "object", id |-> Undefined, method |-> Undefined, toolId |-> Undefined]
RelayBlank == [RelayObject EXCEPT !.raw = "blank"]
RelayNonJson == [RelayObject EXCEPT !.raw = "nonjson"]
RelayNull == [RelayObject EXCEPT !.raw = "null"]
ExecuteRecord(id, toolId) ==
  [RelayObject EXCEPT !.method = "execute", !.id = id, !.toolId = toolId]
OtherRecord(id, method) == [RelayObject EXCEPT !.method = method, !.id = id]

\* A call of waitForResult: its promise is pending until resolved or rejected.
PendingCall == [resolved |-> FALSE, rejected |-> FALSE, value |-> Undefined]

\* OnToolResult serving the waiter that registered last.
OnToolResultLastWaiter(r, result) ==
  LET h == [r EXCEPT !.handed = Append(@, result)] IN
  IF Len(r.resultWaiters) > 0
    THEN [h EXCEPT !.resultWaiters = SubSeq(@, 1, Len(@) - 1),
                   !.calls[Last(r.resultWaiters)].resolved = TRUE,
                   !.calls[Last(r.resultWaiters)].value = result]
    ELSE [h EXCEPT !.resultQueue = Append(@, result)]

\* onToolResult(result), the queue and the waiter list after it.
OnToolResult(r, result) ==
  LET h == [r EXCEPT !.handed = Append(@, result)] IN
  IF Len(r.resultWaiters) > 0
    THEN [h EXCEPT !.resultWaiters = Tail(@),
                   !.calls[Head(r.resultWaiters)].resolved = TRUE,
                   !.calls[Head(r.resultWaiters)].value = result]
    ELSE [h EXCEPT !.resultQueue = Append(@, result)]

\* WaitForResult registering a waiter also when a result is queued.
WaitForResultAlwaysRegisters(r) ==
  [r EXCEPT !.resultWaiters = Append(@, Len(r.calls) + 1),
            !.calls = Append(@, PendingCall)]

\* WaitForResult resolving with the queued result without taking it off the
\* queue.
WaitForResultKeepsQueued(r) ==
  IF Len(r.resultQueue) > 0
    THEN [r EXCEPT !.calls = Append(@, [PendingCall EXCEPT
                                          !.resolved = TRUE,
                                          !.value = Head(r.resultQueue)])]
    ELSE [r EXCEPT !.resultWaiters = Append(@, Len(r.calls) + 1),
                   !.calls = Append(@, PendingCall)]

\* waitForResult(): a queued result resolves the promise at once, otherwise
\* a waiter is registered (the waiter is named by the number of its call).
WaitForResult(r) ==
  IF Len(r.resultQueue) > 0
    THEN [r EXCEPT !.resultQueue = Tail(@),
                   !.calls = Append(@, [PendingCall EXCEPT
                                          !.resolved = TRUE,
                                          !.value = Head(r.resultQueue)])]
    ELSE [r EXCEPT !.resultWaiters = Append(@, Len(r.calls) + 1),
                   !.calls = Append(@, PendingCall)]

\* TimerFired for a waitForResult that sets no timer.
TimerFiredNoTimer(r, w) == r

\* TimerFired rejecting the waiter without removing it from the list.
TimerFiredKeepsWaiter(r, w) ==
  IF \E i \in 1..Len(r.resultWaiters) : r.resultWaiters[i] = w
    THEN [r EXCEPT !.calls[w].rejected = TRUE]
    ELSE r

\* The 30 s timer of waiter w fires (it is cleared when w is resolved).
TimerFired(r, w) ==
  IF \E i \in 1..Len(r.resultWaiters) : r.resultWaiters[i] = w
    THEN [r EXCEPT !.resultWaiters = SelectSeq(@, LAMBDA x : x # w),
                   !.calls[w].rejected = TRUE]
    ELSE r

\* HandleRelayMessage without the test of msg.method.
HandleRelayMessageAnyMethod(r, conn, line, call) ==
  LET g == [r EXCEPT !.received = Append(@, [conn |-> conn, line |-> line])] IN
  IF line.raw = "object"
    THEN [g EXCEPT !.requests =
            Append(@, [conn |-> conn, id |-> line.id, toolId |-> line.toolId,
                       call |-> call, status |-> "pending", result |-> Undefined])]
  ELSE IF line.raw \in {"nonjson", "null"} THEN [g EXCEPT !.logged = @ + 1]
  ELSE g

\* The socket's data handler for one line, and handleRelayMessage up to its
\* await: a blank line is skipped, a record whose method is not execute is
\* dropped, a line that JSON.parse rejects or that is null (msg.method
\* throws) reaches the catch clause, which only logs, and an execute record
\* calls tools.execute.
HandleRelayMessage(r, conn, line, call) ==
  LET g == [r EXCEPT !.received = Append(@, [conn |-> conn, line |-> line])] IN
  IF line.raw = "object" /\ line.method = "execute"
    THEN [g EXCEPT !.requests =
            Append(@, [conn |-> conn, id |-> line.id, toolId |-> line.toolId,
                       call |-> call, status |-> "pending", result |-> Undefined])]
  ELSE IF line.raw \in {"nonjson", "null"} THEN [g EXCEPT !.logged = @ + 1]
  ELSE g

\* ExecuteResolved answering with the connection and the correlation id of
\* the record handled last.
ExecuteResolvedLastRecord(r, n, result) ==
  LET q == r.requests[Len(r.requests)] IN
  OnToolResult([r EXCEPT !.requests[n].status = "resolved",
                         !.requests[n].result = result,
                         !.written = Append(@, [conn |-> q.conn, id |-> q.id,
                                                result |-> result, request |-> n])],
               result)

\* handleRelayMessage after its await, tools.execute having resolved for
\* request n: the response is written to the request's socket, then the
\* result is handed to onToolResult.
ExecuteResolved(r, n, result) ==
  LET q == r.requests[n] IN
  OnToolResult([r EXCEPT !.requests[n].status = "resolved",
                         !.requests[n].result = result,
                         !.written = Append(@, [conn |-> q.conn, id |-> q.id,
                                                result |-> result, request |-> n])],
               result)

\* ExecuteRejected handing an error result on to onToolResult.
ExecuteRejectedHandsOn(r, n) ==
  OnToolResult([r EXCEPT !.requests[n].status = "rejected", !.logged = @ + 1],
               "error")

\* tools.execute threw or rejected for request n: the catch clause only logs.
ExecuteRejected(r, n) ==
  [r EXCEPT !.requests[n].status = "rejected", !.logged = @ + 1]

\* socket.on('error') for connection conn: the error is logged.
SocketError(r, conn) ==
  [r EXCEPT !.errored = @ \cup {conn}, !.logged = @ + 1]

\* The requests whose tools.execute has not settled.
Executing(r) == {n \in 1..Len(r.requests) : r.requests[n].status = "pending"}

\* close: () => server.close()
CloseRelay(r) == [r EXCEPT !.state = "closed", !.closeCalls = @ + 1]

\* --------------------------------------------------- the bridge program
\* The program generateMcpBridgeScript writes, run by the agent as its MCP
\* server: it reads JSON-RPC records from its standard input and writes its
\* replies to its standard output.
\*   received  the lines of its standard input handled so far
\*   sent      the records written by send(), each with the line (request)
\*             whose handler wrote it
\*   calls     the calls of callRelay
NoBridge == [received |-> <<>>, sent |-> <<>>, calls |-> <<>>]

\* A line of the standard input: only white space, text that JSON.parse
\* rejects, or a JSON object with the fields the handler reads; name is
\* msg.params.name, hasParams tells whether msg.params is present.
RpcObject ==
  [raw |-> "object", id |-> Undefined, method |-> Undefined,
   hasParams |-> FALSE, name |-> Undefined]
RpcRequest(id, method) == [RpcObject EXCEPT !.id = id, !.method = method]
RpcToolsCall(id, name) ==
  [RpcObject EXCEPT !.id = id, !.method = "tools/call", !.hasParams = TRUE,
                    !.name = name]

\* A record written by send(): a result or an error, with the id of the
\* request.  body is the result object, hasIsError and isError its isError
\* field, code the code of the error object.
Reply(n, id, kind) ==
  [request |-> n, id |-> id, kind |-> kind, body |-> <<>>,
   hasIsError |-> FALSE, isError |-> FALSE, code |-> 0]

InitializeReply(n, id) ==
  [Reply(n, id, "result") EXCEPT
     !.body = <<"protocolVersion", "2024-11-05", "capabilities", "tools",
                "serverInfo", "stina-tools", "1.0.0">>]
ToolsListReply(n, id) == [Reply(n, id, "result") EXCEPT !.body = <<"tools", "TOOLS">>]
ToolsCallReply(n, id, text, isError) ==
  [Reply(n, id, "result") EXCEPT !.body = <<"content", "text", text>>,
                                 !.hasIsError = TRUE, !.isError = isError]
MethodNotFound(n, id) ==
  [Reply(n, id, "error") EXCEPT !.body = <<"Method not found">>, !.code = 32601]

\* A ToolResult of the host, as the relay's response carries it.
HostResult(success, data, error) ==
  [success |-> success, data |-> data, error |-> error]

\* The result of a call whose promise is not resolved.
NoResult == HostResult(FALSE, Undefined, Undefined)

\* result.data ? JSON.stringify(result.data) : (result.error ? result.error : 'OK')
ResultText(result) ==
  IF Truthy(result.data) THEN result.data
  ELSE IF Truthy(result.error) THEN result.error
  ELSE "OK"

\* A line on the connection of a callRelay: a JSON object with an id and a
\* result (raw is "object") or the JSON value null (raw is "null").
RelayResponse(raw, id, result) == [raw |-> raw, id |-> id, result |-> result]

\* function send(obj)
Send(b, reply) == [b EXCEPT !.sent = Append(@, reply)]

\* resolve(value) or reject(value) of the promise of call k, and the rest of
\* the tools/call handler after its await.  A promise settles once: a later
\* resolve or reject does nothing.
Settled(b, k, outcome, value) ==
  LET c == b.calls[k]
      n == c.request
      id == b.received[n].id
      s == IF outcome = "resolved"
             THEN [b EXCEPT !.calls[k].promise = outcome, !.calls[k].value = value]
             ELSE [b EXCEPT !.calls[k].promise = outcome, !.calls[k].reason = value]
  IN IF c.promise # "pending" THEN b
     ELSE IF outcome = "resolved"
       THEN Send(s, ToolsCallReply(n, id, ResultText(value), ~value.success))
     ELSE Send(s, ToolsCallReply(n, id, OrElse(value, "Unknown error"), TRUE))

\* callRelay(toolId, params) up to the return of the promise: the connection
\* is being made and the 30 s timer is set.  id is the correlation id, made
\* when the connection is established, wrote what was written to the
\* connection, got the lines it delivered, value what the promise was
\* resolved with and reason the message of the error it was rejected with.
CallRelay(b, n, toolId) ==
  [b EXCEPT !.calls = Append(@, [request |-> n, toolId |-> toolId,
                                 conn |-> "connecting", id |-> Undefined,
                                 promise |-> "pending", value |-> NoResult,
                                 reason |-> Undefined,
                                 timer |-> "set", got |-> <<>>,
                                 wrote |-> <<>>])]

\* OnLine answering the notification notifications/initialized like an
\* unknown method.
OnLineAnswersNotification(b, line) ==
  LET n == Len(b.received) + 1
      g == [b EXCEPT !.received = Append(@, line)]
  IN IF line.raw # "object" THEN g
     ELSE IF line.method = "initialize" THEN Send(g, InitializeReply(n, line.id))
     ELSE IF line.method = "tools/list" THEN Send(g, ToolsListReply(n, line.id))
     ELSE IF line.method = "tools/call"
       THEN IF ~line.hasParams
              THEN Send(g, ToolsCallReply(n, line.id, "TypeError", TRUE))
              ELSE CallRelay(g, n, line.name)
     ELSE Send(g, MethodNotFound(n, line.id))

\* rl.on('line'): the handler of one line of the standard input, up to its
\* await.  A tools/call without params throws inside the try block.
OnLine(b, line) ==
  LET n == Len(b.received) + 1
      g == [b EXCEPT !.received = Append(@, line)]
  IN IF line.raw # "object" THEN g
     ELSE IF line.method = "initialize" THEN Send(g, InitializeReply(n, line.id))
     ELSE IF line.method = "notifications/initialized" THEN g
     ELSE IF line.method = "tools/list" THEN Send(g, ToolsListReply(n, line.id))
     ELSE IF line.method = "tools/call"
       THEN IF ~line.hasParams
              THEN Send(g, ToolsCallReply(n, line.id, "TypeError", TRUE))
              ELSE CallRelay(g, n, line.name)
     ELSE Send(g, MethodNotFound(n, line.id))

\* The correlation id callRelay makes for call k: Date.now() and
\* Math.random() in base 36, taken to be different for different calls.
FreshId(k) == <<"i1", "i2", "i3", "i4">>[k]

\* The connection of call k is established: the id is made and the execute
\* record is written.
OnConnect(b, k) ==
  [b EXCEPT !.calls[k].conn = "open", !.calls[k].id = FreshId(k),
            !.calls[k].wrote = <<[id |-> FreshId(k), method |-> "execute",
                                  toolId |-> b.calls[k].toolId]>>]

\* client.on('data') for one line: a response with the id of the call ends
\* the connection and resolves the promise, any other line is ignored.
OnData(b, k, resp) ==
  LET g == [b EXCEPT !.calls[k].got = Append(@, resp)] IN
  IF resp.raw = "object" /\ resp.id = b.calls[k].id
    THEN Settled([g EXCEPT !.calls[k].conn = "ended"], k, "resolved", resp.result)
    ELSE g

\* client.on('error'): the connection failed, the promise is rejected.
OnError(b, k, message) ==
  Settled([b EXCEPT !.calls[k].conn = "failed"], k, "rejected", message)

\* OnTimer destroying the connection without rejecting the promise.
OnTimerNoReject(b, k) ==
  [b EXCEPT !.calls[k].timer = "fired", !.calls[k].conn = "destroyed"]

\* The 30 s timer of call k fires (it is never cleared): the connection is
\* destroyed and the promise rejected.
OnTimer(b, k) ==
  Settled([b EXCEPT !.calls[k].timer = "fired", !.calls[k].conn = "destroyed"],
          k, "rejected", "timeout")

\* --------------------------------------------------------------- readLines
\* The bytes of a stream: line feed, the letter a, space, and the two bytes
\* of the UTF-8 encoding of U+00E9 (the lead byte C3, the continuation A9).
Bytes == {"0A", "61", "20", "C3", "A9"}

\* chunk.toString(): the UTF-8 decoding of one Buffer, as a sequence of
\* characters.  A lead byte that its continuation byte does not follow in
\* the same Buffer, and a continuation byte without a lead byte, each become
\* the replacement character U+FFFD.
RECURSIVE Decode(_)
Decode(b) ==
  IF b = <<>> THEN <<>>
  ELSE IF b[1] = "C3"
    THEN IF Len(b) >= 2 /\ b[2] = "A9"
           THEN <<"U+00E9">> \o Decode(SubSeq(b, 3, Len(b)))
           ELSE <<"U+FFFD">> \o Decode(Tail(b))
  ELSE IF b[1] = "A9" THEN <<"U+FFFD">> \o Decode(Tail(b))
  ELSE IF b[1] = "0A" THEN <<"U+000A">> \o Decode(Tail(b))
  ELSE IF b[1] = "20" THEN <<"U+0020">> \o Decode(Tail(b))
  ELSE <<"U+0061">> \o Decode(Tail(b))

\* text.split('\n'): the pieces between the line feeds, at least one.
RECURSIVE Split(_)
Split(text) ==
  IF \A i \in 1..Len(text) : text[i] # "U+000A" THEN <<text>>
  ELSE LET i == CHOOSE k \in 1..Len(text) :
                  /\ text[k] = "U+000A"
                  /\ \A m \in 1..(k - 1) : text[m] # "U+000A"
       IN <<SubSeq(text, 1, i - 1)>> \o Split(SubSeq(text, i + 1, Len(text)))

\* text.trim() is the empty string: the text holds white space only.
TrimsToEmpty(text) ==
  \A i \in 1..Len(text) : text[i] \in {"U+0020", "U+000A"}

\* The frame of readLines: buffer, the lines of the inner for loop that are
\* not yet yielded (lines), and the record of the stream (the bytes it
\* carries, the chunks still to come) and of the lines yielded (out).
\* pc: "none"      readLines has not been called
\*     "awaitChunk" awaiting the next chunk of the stream
\*     "yielded"   suspended at a yield
\*     "completed" the body ran to its end
NoReader ==
  [pc |-> "none", stream |-> <<>>, chunks |-> <<>>, buffer |-> <<>>,
   lines |-> <<>>, atEnd |-> FALSE, out |-> <<>>]

\* The body goes on to its next yield, or to its end.
ReaderRun(r) ==
  IF r.lines # <<>>
    THEN [r EXCEPT !.out = Append(@, Head(r.lines)), !.lines = Tail(@),
                   !.pc = "yielded"]
  ELSE IF r.atEnd THEN [r EXCEPT !.pc = "completed"]
  ELSE [r EXCEPT !.pc = "awaitChunk"]

\* The stream delivers a chunk: buffer += chunk.toString(), split, pop.
OnChunk(r) ==
  LET text == r.buffer \o Decode(Head(r.chunks))
      lines == Split(text)
  IN  ReaderRun([r EXCEPT !.chunks = Tail(@),
                          !.buffer = Last(lines),
                          !.lines = SubSeq(lines, 1, Len(lines) - 1)])

\* The stream ends: the remaining buffer is yielded unless it trims to ''.
OnEnd(r) ==
  ReaderRun([r EXCEPT !.atEnd = TRUE,
                      !.lines = IF TrimsToEmpty(r.buffer) THEN <<>>
                                ELSE <<r.buffer>>])

\* ------------------------------------------------------ streamChat: frame
\* pc: "none"            chat() has not been called
\*     "suspendedStart"  the generator exists, its body has not started
\*     "yieldedNoPrompt" suspended at the yield of 'No message content found'
\*     "setup"           awaiting the set-up of the MCP bridge
\*     "awaitCli"        awaiting the next event of runClaudeCode
\*     "yielded"         suspended at a yield after which the loop goes on
\*     "yieldedToolStart" suspended at the tool_start of a bridged tool
\*     "yieldedBuiltinStart" suspended at the tool_start of a built-in tool
\*     "awaitResult"     awaiting relay.waitForResult()
\*     "yieldedLast"     suspended at a yield after which the try block ends
\*     "finished"        the generator has ended
\* messages is the message history the caller passed.
\* relay tells whether the local variable relay is set.  after holds the
\* turns that had ended when this turn's body started, conversation the
\* conversation of the host that the caller made the turn for, created the
\* temporary files createMcpConfigFile wrote for the turn and unlinked those
\* whose removal was attempted; abandoned tells that the consumer called
\* return() at a point from which next() would have run more of the body
\* than its end.
NoChat ==
  [pc |-> "none", conversation |-> Undefined,
   settingsConversationId |-> Undefined, messages |-> <<>>, fullPrompt |-> "",
   conversationId |-> Undefined, existingSessionId |-> Undefined,
   relay |-> FALSE, mcpConfigPath |-> Undefined, hasAllowedTools |-> FALSE,
   allowedTools |-> <<>>, out |-> <<>>, unlinkCalls |-> 0, after |-> {},
   created |-> {}, unlinked |-> {}, abandoned |-> FALSE]

\* ToolEndEvent without the toolCallId.
ToolEndEventNoCallId(name, id, output) ==
  [Event("tool_end") EXCEPT !.name = name, !.output = output]

ToolEndEvent(name, id, output) ==
  [Event("tool_end") EXCEPT !.name = name, !.toolCallId = id, !.output = output]

ChatYield(c, e, pc) == [c EXCEPT !.out = Append(@, e), !.pc = pc]

\* MapSet that keeps the entry a key already has.
MapSetFirstWins(m, key, value) ==
  [k \in DOMAIN m \cup {key} |-> IF k \in DOMAIN m THEN m[k] ELSE value]

\* MapGet falling back to the entry of another key when the key has none.
MapGetAnyEntry(m, key) ==
  IF key \in DOMAIN m THEN m[key]
  ELSE IF DOMAIN m # {} THEN m[CHOOSE k \in DOMAIN m : TRUE]
  ELSE Undefined

\* sessionMap.get(key) and sessionMap.set(key, value)
MapGet(m, key) == IF key \in DOMAIN m THEN m[key] ELSE Undefined
MapSet(m, key, value) ==
  [k \in DOMAIN m \cup {key} |-> IF k = key THEN value ELSE m[k]]

\* A message of the history.
Message(role, content) == [role |-> role, content |-> content]

\* parts.join('\n\n')
RECURSIVE JoinParts(_)
JoinParts(parts) ==
  IF Len(parts) = 0 THEN ""
  ELSE IF Len(parts) = 1 THEN parts[1]
  ELSE parts[1] \o "\n\n" \o JoinParts(Tail(parts))

\* The loop of buildPrompt: the content of the last user message that has
\* content, and the contents of the system messages that have content.
LastUserContent(messages) ==
  LET I == {i \in 1..Len(messages) :
              messages[i].role = "user" /\ Truthy(messages[i].content)}
  IN  IF I = {} THEN ""
      ELSE messages[CHOOSE i \in I : \A j \in I : j <= i].content

SystemContents(messages) ==
  LET sys == SelectSeq(messages,
                       LAMBDA m : m.role = "system" /\ Truthy(m.content))
  IN  [i \in 1..Len(sys) |-> sys[i].content]

\* BuildPrompt joining the system part and the separator to the user prompt
\* whether or not there is a system part.
BuildPromptAlwaysJoins(messages) ==
  JoinParts(SystemContents(messages)) \o "\n\n---\n\n"
    \o LastUserContent(messages)

\* buildPrompt(messages)
BuildPrompt(messages) ==
  LET user == LastUserContent(messages)
      sys == SystemContents(messages)
      popped == ~Truthy(user) /\ Len(sys) > 0
      userPrompt == IF popped THEN Last(sys) ELSE user
      systemParts == IF popped THEN SubSeq(sys, 1, Len(sys) - 1) ELSE sys
  IN  IF Len(systemParts) > 0
        THEN JoinParts(systemParts) \o "\n\n---\n\n" \o userPrompt
        ELSE userPrompt

\* (settings.conversationId as string) || 'default'
ConversationKey(setting) == OrElse(setting, "default")

BuiltinToolNames ==
  <<"Read", "Write", "Edit", "Bash", "Glob", "Grep", "WebFetch", "WebSearch",
    "NotebookEdit">>

\* The ways the set-up of the MCP bridge can go.
\* createMcpConfigFile embeds a bridge script shorter than 100000 characters
\* in the config and writes a longer one to a file of its own ("Large").
SetupOutcomes ==
  {"disabled", "noTools", "listThrows", "relayThrows", "configThrows", "ok",
   "configThrowsLarge", "okLarge"}

\* AfterSetup with the allow-list assigned before the config file is written.
AfterSetupListFirst(c, outcome) ==
  IF outcome \in {"ok", "okLarge"}
    THEN [c EXCEPT !.relay = TRUE, !.mcpConfigPath = "cfg",
                   !.hasAllowedTools = TRUE, !.allowedTools = BuiltinToolNames,
                   !.created = IF outcome = "okLarge" THEN {"script", "config"}
                               ELSE {"config"},
                   !.pc = "awaitCli"]
  ELSE IF outcome \in {"configThrows", "configThrowsLarge"}
    THEN [c EXCEPT !.relay = TRUE,
                   !.hasAllowedTools = TRUE, !.allowedTools = BuiltinToolNames,
                   !.created = IF outcome = "configThrowsLarge" THEN {"script"}
                               ELSE {},
                   !.pc = "awaitCli"]
  ELSE [c EXCEPT !.pc = "awaitCli"]

\* The frame after the set-up, by its outcome.
AfterSetup(c, outcome) ==
  IF outcome \in {"ok", "okLarge"}
    THEN [c EXCEPT !.relay = TRUE, !.mcpConfigPath = "cfg",
                   !.hasAllowedTools = TRUE, !.allowedTools = BuiltinToolNames,
                   !.created = IF outcome = "okLarge" THEN {"script", "config"}
                               ELSE {"config"},
                   !.pc = "awaitCli"]
  ELSE IF outcome \in {"configThrows", "configThrowsLarge"}
    THEN [c EXCEPT !.relay = TRUE,
                   !.created = IF outcome = "configThrowsLarge" THEN {"script"}
                               ELSE {},
                   !.pc = "awaitCli"]
  ELSE [c EXCEPT !.pc = "awaitCli"]

\* FinallyRelay closing the relay only when a config file was written.
FinallyRelayWhenConfig(c, r) ==
  IF c.relay /\ Truthy(c.mcpConfigPath) THEN CloseRelay(r) ELSE r

\* The finally clause: the frame, and the relay, after it.  fs.unlink is
\* called for mcpConfigPath only, and what it throws is swallowed.
FinallyChat(c) ==
  [c EXCEPT !.pc = "finished",
            !.unlinkCalls = IF Truthy(c.mcpConfigPath) THEN @ + 1 ELSE @,
            !.unlinked = IF Truthy(c.mcpConfigPath) THEN {"config"} ELSE @]
FinallyRelay(c, r) == IF c.relay THEN CloseRelay(r) ELSE r

\* Surfaced taking the branch of the bridged tools for every prefixed name,
\* whether or not a relay is set.
SurfacedPrefixOnly(c, e) ==
  IF e.type = "content" THEN ChatYield(c, ContentEvent(e.text), "yielded")
  ELSE IF e.type = "thinking" THEN ChatYield(c, ThinkingEvent(e.text), "yielded")
  ELSE IF e.type = "tool_start"
    THEN IF StartsWithPrefix(e.name)
           THEN ChatYield(c, ToolStartEvent(StripPrefix(e.name), e.toolCallId),
                          "yieldedToolStart")
           ELSE ChatYield(c, ToolStartEvent(e.name, e.toolCallId),
                          "yieldedBuiltinStart")
  ELSE IF e.type = "done"
    THEN ChatYield(c, DoneEvent(e.hasUsage, e.inputTokens, e.outputTokens, Undefined),
                   "yieldedLast")
  ELSE ChatYield(c, ErrorEvent(e.message), "yieldedLast")

\* Surfaced with a break, rather than a return, after the yield of done or
\* error.
SurfacedGoesOn(c, e) ==
  IF e.type = "content" THEN ChatYield(c, ContentEvent(e.text), "yielded")
  ELSE IF e.type = "thinking" THEN ChatYield(c, ThinkingEvent(e.text), "yielded")
  ELSE IF e.type = "tool_start"
    THEN IF c.relay /\ StartsWithPrefix(e.name)
           THEN ChatYield(c, ToolStartEvent(StripPrefix(e.name), e.toolCallId),
                          "yieldedToolStart")
           ELSE ChatYield(c, ToolStartEvent(e.name, e.toolCallId),
                          "yieldedBuiltinStart")
  ELSE IF e.type = "done"
    THEN ChatYield(c, DoneEvent(e.hasUsage, e.inputTokens, e.outputTokens, Undefined),
                   "yielded")
  ELSE ChatYield(c, ErrorEvent(e.message), "yielded")

\* What the switch yields for a CLI event that has a case with a yield.
Surfaced(c, e) ==
  IF e.type = "content" THEN ChatYield(c, ContentEvent(e.text), "yielded")
  ELSE IF e.type = "thinking" THEN ChatYield(c, ThinkingEvent(e.text), "yielded")
  ELSE IF e.type = "tool_start"
    THEN IF c.relay /\ StartsWithPrefix(e.name)
           THEN ChatYield(c, ToolStartEvent(StripPrefix(e.name), e.toolCallId),
                          "yieldedToolStart")
           ELSE ChatYield(c, ToolStartEvent(e.name, e.toolCallId),
                          "yieldedBuiltinStart")
  ELSE IF e.type = "done"
    THEN ChatYield(c, DoneEvent(e.hasUsage, e.inputTokens, e.outputTokens, Undefined),
                   "yieldedLast")
  ELSE ChatYield(c, ErrorEvent(e.message), "yieldedLast")

\* ---------------------------------------------------- streamChat: steps
SetChat(t, c) == chat' = [chat EXCEPT ![t] = c]
SetRelay(t, r) == relay' = [relay EXCEPT ![t] = r]

\* The CLI event streamChat is handling: runClaudeCode is suspended at its yield.
CurrentEvent(t) == Last(cli[t].out)

\* The ways a caller passes the conversation of a turn: its identifier as
\* settings.conversationId, or settings without a conversationId.
CallerSettings(conversations) ==
  UNION {{[conversation |-> c, conversationId |-> c],
          [conversation |-> c, conversationId |-> Undefined]} :
           c \in conversations}

\* provider.chat(messages, options): creates the generator.
ChatCall(t, settings, histories) ==
  /\ chat[t].pc = "none"
  /\ \E s \in settings, p \in histories :
       SetChat(t, [NoChat EXCEPT !.pc = "suspendedStart",
                                 !.conversation = s.conversation,
                                 !.settingsConversationId = s.conversationId,
                                 !.messages = p])
  /\ UNCHANGED <<cli, child, relay, sessionMap, isRoot, bridge, reader>>

\* The first next(): buildPrompt, the prompt check and the read of the
\* session map.
ChatStart(t) ==
  /\ chat[t].pc = "suspendedStart"
  /\ LET fullPrompt == BuildPrompt(chat[t].messages) IN
     IF ~Truthy(fullPrompt)
       THEN SetChat(t, ChatYield(chat[t], ErrorEvent(<<"No message content found">>),
                                 "yieldedNoPrompt"))
       ELSE LET key == ConversationKey(chat[t].settingsConversationId) IN
            SetChat(t, [chat[t] EXCEPT
                          !.pc = "setup", !.fullPrompt = fullPrompt,
                          !.conversationId = key,
                          !.existingSessionId = MapGet(sessionMap, key),
                          !.after = {u \in Turns : chat[u].pc = "finished"}])
  /\ UNCHANGED <<cli, child, relay, sessionMap, isRoot, bridge, reader>>

\* The set-up of the MCP bridge, then the call of runClaudeCode and the first
\* stream.next().
ChatSetup(t, outcomes) ==
  /\ chat[t].pc = "setup"
  /\ \E outcome \in outcomes :
       LET c == AfterSetup(chat[t], outcome) IN
       /\ SetChat(t, c)
       /\ SetRelay(t, IF c.relay THEN [NoRelay EXCEPT !.state = "listening"]
                      ELSE relay[t])
       /\ Call(t, Options(c.existingSessionId, c.mcpConfigPath,
                          c.hasAllowedTools, c.allowedTools))
  /\ UNCHANGED <<child, sessionMap, isRoot, bridge, reader>>

\* The body of runClaudeCode starts, on behalf of the pending stream.next().
CliStart(t, lines) ==
  /\ chat[t].pc = "awaitCli"
  /\ Start(t, lines)
  /\ UNCHANGED <<chat, relay, sessionMap, isRoot, bridge, reader>>

\* stream.next() delivers an event: the switch statement.
ChatEvent(t) ==
  /\ chat[t].pc = "awaitCli"
  /\ cli[t].pc \in {"yielded", "yieldedLast"}
  /\ IF CurrentEvent(t).type = "session_init"
       THEN /\ sessionMap' = MapSet(sessionMap, chat[t].conversationId,
                                    CurrentEvent(t).sessionId)
            /\ Resume(t)
            /\ UNCHANGED chat
       ELSE /\ SetChat(t, Surfaced(chat[t], CurrentEvent(t)))
            /\ UNCHANGED <<cli, sessionMap>>
  /\ UNCHANGED <<child, relay, isRoot, bridge, reader>>

\* stream.next() reports the end of the stream: done without usage.
ChatStreamEnd(t) ==
  /\ chat[t].pc = "awaitCli"
  /\ cli[t].pc = "completed"
  /\ SetChat(t, ChatYield(chat[t], Event("done"), "yieldedLast"))
  /\ UNCHANGED <<cli, child, relay, sessionMap, isRoot, bridge, reader>>

\* A statement of the try block throws while an event is handled (a call of
\* the host's logger): the loop is left, the catch clause yields an error.
ChatException(t) ==
  /\ chat[t].pc = "awaitCli"
  /\ cli[t].pc \in {"yielded", "yieldedLast"}
  /\ Return(t)
  /\ SetChat(t, ChatYield(chat[t], ErrorEvent(<<"exception">>), "yieldedLast"))
  /\ UNCHANGED <<child, relay, sessionMap, isRoot, bridge, reader>>

\* next() after content, thinking or tool_end: break, then stream.next().
ChatContinue(t) ==
  /\ chat[t].pc = "yielded"
  /\ Resume(t)
  /\ SetChat(t, [chat[t] EXCEPT !.pc = "awaitCli"])
  /\ UNCHANGED <<child, relay, sessionMap, isRoot, bridge, reader>>

\* next() after the tool_start of a bridged tool: relay.waitForResult().
ChatWaitForResult(t) ==
  /\ chat[t].pc = "yieldedToolStart"
  /\ LET r == WaitForResult(relay[t]) IN
     /\ SetRelay(t, r)
     /\ IF Last(r.calls).resolved
          THEN SetChat(t, ChatYield(chat[t],
                          ToolEndEvent(Last(chat[t].out).name,
                                       CurrentEvent(t).toolCallId,
                                       Last(r.calls).value), "yielded"))
          ELSE SetChat(t, [chat[t] EXCEPT !.pc = "awaitResult"])
  /\ UNCHANGED <<cli, child, sessionMap, isRoot, bridge, reader>>

\* next() after the tool_start of a built-in tool.
ChatBuiltinEnd(t) ==
  /\ chat[t].pc = "yieldedBuiltinStart"
  /\ SetChat(t, ChatYield(chat[t],
                ToolEndEvent(CurrentEvent(t).name, CurrentEvent(t).toolCallId,
                             "completed"), "yielded"))
  /\ UNCHANGED <<cli, child, relay, sessionMap, isRoot, bridge, reader>>

\* The tool calls of an output that go to the bridge: the tool_use blocks
\* whose name has the prefix of the MCP server.
BridgedBlocks(lines) ==
  UNION {{lines[i].content[j] :
            j \in {k \in 1..Len(lines[i].content) :
                     /\ lines[i].content[k].type = "tool_use"
                     /\ StartsWithPrefix(lines[i].content[k].name)}} :
         i \in {k \in 1..Len(lines) : lines[k].raw = "object"}}

\* The agent calls a bridged tool: its bridge script (callRelay) opens a
\* connection of its own and writes one execute record, which the relay
\* handles.  The connection and the correlation id are named after the tool
\* call they were made for.
BridgeRequest(t) ==
  /\ relay[t].state = "listening"
  /\ child[t].state = "running"
  /\ \E b \in BridgedBlocks(child[t].stdout) :
       /\ \A n \in 1..Len(relay[t].requests) : relay[t].requests[n].call # b.id
       /\ SetRelay(t, HandleRelayMessage(relay[t], b.id,
                                         ExecuteRecord(b.id, StripPrefix(b.name)),
                                         b.id))
  /\ UNCHANGED <<cli, child, chat, sessionMap, isRoot, bridge, reader>>

\* tools.execute resolves for a request of the relay.  A waiting streamChat
\* is resumed and yields the tool_end.
ToolResult(t) ==
  /\ \E n \in Executing(relay[t]), result \in ToolResults :
       /\ SetRelay(t, ExecuteResolved(relay[t], n, result))
       /\ IF Len(relay[t].resultWaiters) > 0
            THEN SetChat(t, ChatYield(chat[t],
                            ToolEndEvent(Last(chat[t].out).name,
                                         CurrentEvent(t).toolCallId, result),
                            "yielded"))
            ELSE UNCHANGED chat
  /\ UNCHANGED <<cli, child, sessionMap, isRoot, bridge, reader>>

\* tools.execute rejects for a request of the relay.
ToolFailure(t) ==
  /\ \E n \in Executing(relay[t]) : SetRelay(t, ExecuteRejected(relay[t], n))
  /\ UNCHANGED <<cli, child, chat, sessionMap, isRoot, bridge, reader>>

\* WaitTimeout without the try around waitForResult: the rejection reaches
\* the catch clause of streamChat, which yields an error.
WaitTimeoutAborts(t) ==
  /\ chat[t].pc = "awaitResult"
  /\ Len(relay[t].resultWaiters) > 0
  /\ SetRelay(t, TimerFired(relay[t], Head(relay[t].resultWaiters)))
  /\ SetChat(t, ChatYield(chat[t], ErrorEvent(<<"waitForResult timed out after 30s">>),
                          "yieldedLast"))
  /\ UNCHANGED <<cli, child, sessionMap, isRoot, bridge, reader>>

\* The 30 s timer of waitForResult fires: the waiter is removed and rejected,
\* and streamChat yields the degraded tool_end.
WaitTimeout(t) ==
  /\ chat[t].pc = "awaitResult"
  /\ Len(relay[t].resultWaiters) > 0
  /\ SetRelay(t, TimerFired(relay[t], Head(relay[t].resultWaiters)))
  /\ SetChat(t, ChatYield(chat[t],
                ToolEndEvent(Last(chat[t].out).name, CurrentEvent(t).toolCallId,
                             "completed"), "yielded"))
  /\ UNCHANGED <<cli, child, sessionMap, isRoot, bridge, reader>>

\* The try block is left: a for-await loop left early calls stream.return(),
\* then the finally clause runs.
LeaveTry(t, c) ==
  /\ SetChat(t, FinallyChat(c))
  /\ SetRelay(t, FinallyRelay(c, relay[t]))
  /\ IF cli[t].pc \in {"yielded", "yieldedLast"} THEN Return(t) ELSE UNCHANGED cli

\* next() after the last yield of the body.
ChatFinish(t) ==
  /\ \/ chat[t].pc = "yieldedLast" /\ LeaveTry(t, chat[t])
     \/ /\ chat[t].pc = "yieldedNoPrompt"
        /\ SetChat(t, [chat[t] EXCEPT !.pc = "finished"])
        /\ UNCHANGED <<cli, relay>>
  /\ UNCHANGED <<child, sessionMap, isRoot, bridge, reader>>

\* return(): the consumer abandons the sequence at a yield.
ChatReturn(t) ==
  /\ \/ /\ chat[t].pc \in {"yielded", "yieldedToolStart", "yieldedBuiltinStart",
                           "yieldedLast"}
        /\ LeaveTry(t, [chat[t] EXCEPT !.abandoned = chat[t].pc # "yieldedLast"])
     \/ /\ chat[t].pc \in {"suspendedStart", "yieldedNoPrompt"}
        /\ SetChat(t, [chat[t] EXCEPT !.pc = "finished",
                                      !.abandoned = chat[t].pc = "suspendedStart"])
        /\ UNCHANGED <<cli, relay>>
  /\ UNCHANGED <<child, sessionMap, isRoot, bridge, reader>>

\* ------------------------------------------------------- specifications
Init ==
  /\ cli = [t \in Turns |-> NoFrame]
  /\ child = [t \in Turns |-> NoChild]
  /\ chat = [t \in Turns |-> NoChat]
  /\ relay = [t \in Turns |-> NoRelay]
  /\ sessionMap = <<>>
  /\ isRoot \in BOOLEAN
  /\ bridge = NoBridge
  /\ reader = NoReader

\* Spec: one run of runClaudeCode under an arbitrary consumer.
Next ==
  \/ ConsumerCall("t1")
  \/ ConsumerFirstNext("t1")
  \/ ConsumerNext("t1")
  \/ ConsumerReturn("t1")
  \/ ReadLine("t1")
  \/ ReadEof("t1")
  \/ ChildClose("t1", ExitCodes)
  \/ ExitResolved("t1")

\* The run is made by a user other than root; SpecResult and SpecChat also
\* follow the runs root makes, whose argument list lacks one flag.
InitRun == Init /\ ~isRoot

Spec == InitRun /\ [][Next]_vars

\* SpecResult: one run of runClaudeCode whose subprocess writes result
\* records of every shape, the first after an init record or after nothing.
ResultCases ==
  {[ResultRecord(subtype, isError, usage[1], usage[2], usage[3], text[1], text[2])
      EXCEPT !.long = text[3]] :
     subtype \in {"success", "error_max_turns", "", Undefined},
     isError \in BOOLEAN,
     usage \in {<<FALSE, 0, 0>>, <<TRUE, 0, 0>>, <<TRUE, 0, 5>>, <<TRUE, 3, 5>>},
     text \in {<<"", "", FALSE>>, <<"", "", TRUE>>, <<"boom", "err", FALSE>>,
               <<"", "err", FALSE>>}}

ResultOutputs ==
  {pre \o s : pre \in {<<>>, <<InitRecord("T1")>>},
              s \in SeqsUpTo(ResultCases, MaxResultLines)}

NextResult ==
  \/ ConsumerCall("t1")
  \/ ResultFirstNext("t1", ResultOutputs)
  \/ ConsumerNext("t1")
  \/ ConsumerReturn("t1")
  \/ ReadLine("t1")
  \/ ReadEof("t1")
  \/ ChildClose("t1", ExitCodes)
  \/ ExitResolved("t1")

SpecResult == Init /\ [][NextResult]_vars

\* SpecChat: one turn of streamChat, with its subprocess and its relay.
ChatLines ==
  {NonJsonLine,
   InitRecord("T1"),
   DeltaRecord("text_delta", "d1"),
   AssistantRecord(<<ToolUseBlock("c1", BridgedTool("x")),
                     ToolUseBlock("c2", BuiltinTool("Read"))>>),
   ResultRecord("success", FALSE, TRUE, 3, 5, "", ""),
   ResultRecord("success", TRUE, TRUE, 3, 5, "boom", "")}

ChatSettings == CallerSettings({"c1"})
ChatPrompts == {<<>>, <<Message("user", "prompt")>>}

NextChat ==
  \/ ChatCall("t1", ChatSettings, ChatPrompts)
  \/ ChatStart("t1")
  \/ ChatSetup("t1", SetupOutcomes)
  \/ CliStart("t1", SeqsUpTo(ChatLines, MaxChatLines))
  \/ ReadLine("t1")
  \/ ReadEof("t1")
  \/ ChildClose("t1", ExitCodes)
  \/ ExitResolved("t1")
  \/ ChatEvent("t1")
  \/ ChatStreamEnd("t1")
  \/ ChatException("t1")
  \/ ChatContinue("t1")
  \/ ChatWaitForResult("t1")
  \/ ChatBuiltinEnd("t1")
  \/ BridgeRequest("t1")
  \/ ToolResult("t1")
  \/ ToolFailure("t1")
  \/ WaitTimeout("t1")
  \/ ChatFinish("t1")
  \/ ChatReturn("t1")

SpecChat == Init /\ [][NextChat]_vars

\* SpecTurns: two turns of streamChat that may overlap, sharing sessionMap.
TurnLines ==
  {InitRecord("T1"), InitRecord("T2"), InitRecord(""),
   ResultRecord("success", FALSE, TRUE, 3, 5, "", "")}

TurnSettings == CallerSettings({"c1", "c2"})
TurnPrompts == {<<>>, <<Message("user", "prompt")>>}

\* The turns are named in the order of their calls, the conversations in the
\* order of their first turns.
TurnCall(t) ==
  /\ t = "t2" => chat["t1"].pc # "none"
  /\ ChatCall(t, {s \in TurnSettings : t = "t1" => s.conversation = "c1"},
              TurnPrompts)

InitTurns == Init /\ ~isRoot

NextTurns ==
  \E t \in Turns :
    \/ TurnCall(t)
    \/ ChatStart(t)
    \/ ChatSetup(t, {"disabled"})
    \/ CliStart(t, SeqsUpTo(TurnLines, MaxTurnLines))
    \/ ReadLine(t)
    \/ ReadEof(t)
    \/ ChildClose(t, {"0", "1"})
    \/ ExitResolved(t)
    \/ ChatEvent(t)
    \/ ChatStreamEnd(t)
    \/ ChatFinish(t)
    \/ ChatReturn(t)

SpecTurns == InitTurns /\ [][NextTurns]_vars

\* SpecTools: one turn of streamChat whose agent calls tools.
ToolLines ==
  {AssistantRecord(<<ToolUseBlock("c1", BridgedTool("x")),
                     ToolUseBlock("c2", BridgedTool("y"))>>),
   AssistantRecord(<<ToolUseBlock("c3", BuiltinTool("Read"))>>),
   DeltaRecord("text_delta", "d1"),
   ResultRecord("success", FALSE, TRUE, 3, 5, "", "")}

InitTools == Init /\ ~isRoot

NextTools ==
  \/ ChatCall("t1", CallerSettings({"c1"}), {<<Message("user", "prompt")>>})
  \/ ChatStart("t1")
  \/ ChatSetup("t1", {"ok", "disabled"})
  \/ CliStart("t1", SeqsUpTo(ToolLines, MaxToolLines))
  \/ ReadLine("t1")
  \/ ReadEof("t1")
  \/ ChildClose("t1", {"0"})
  \/ ExitResolved("t1")
  \/ ChatEvent("t1")
  \/ ChatStreamEnd("t1")
  \/ ChatContinue("t1")
  \/ ChatWaitForResult("t1")
  \/ ChatBuiltinEnd("t1")
  \/ BridgeRequest("t1")
  \/ ToolResult("t1")
  \/ ToolFailure("t1")
  \/ WaitTimeout("t1")
  \/ ChatFinish("t1")
  \/ ChatReturn("t1")

SpecTools == InitTools /\ [][NextTools]_vars

\* SpecToolsLive: the same turn, the timer of a registered waiter firing in
\* the end (setTimeout; only the resolution of its waiter clears it).
SpecToolsLive == InitTools /\ [][NextTools]_vars /\ WF_vars(WaitTimeout("t1"))

\* SpecPrompt: one turn of streamChat for every message history of up to
\* MaxMessages messages, the session registry as earlier turns left it.
PromptMessages ==
  {Message(role, content) :
     role \in {"user", "system", "assistant"}, content \in {"", "text"}}

PromptRegistries == {<<>>, [k \in {"c1", "default"} |-> "T0"]}

PromptLines ==
  {InitRecord("T1"), ResultRecord("success", FALSE, TRUE, 3, 5, "", "")}

InitPrompt ==
  /\ cli = [t \in Turns |-> NoFrame]
  /\ child = [t \in Turns |-> NoChild]
  /\ chat = [t \in Turns |-> NoChat]
  /\ relay = [t \in Turns |-> NoRelay]
  /\ sessionMap \in PromptRegistries
  /\ isRoot = FALSE
  /\ bridge = NoBridge
  /\ reader = NoReader

NextPrompt ==
  \/ ChatCall("t1", ChatSettings, SeqsUpTo(PromptMessages, MaxMessages))
  \/ ChatStart("t1")
  \/ ChatSetup("t1", {"ok", "disabled"})
  \/ CliStart("t1", SeqsUpTo(PromptLines, MaxTurnLines))
  \/ ReadLine("t1")
  \/ ReadEof("t1")
  \/ ChildClose("t1", {"0"})
  \/ ExitResolved("t1")
  \/ ChatEvent("t1")
  \/ ChatStreamEnd("t1")
  \/ ChatFinish("t1")
  \/ ChatReturn("t1")

SpecPrompt == InitPrompt /\ [][NextPrompt]_vars

\* SpecSetup: one turn of streamChat whose set-up of the MCP bridge fails,
\* at tools.list(), at startToolRelay or at createMcpConfigFile.
FailingSetups == {"listThrows", "relayThrows", "configThrows", "configThrowsLarge"}

SetupLines ==
  {InitRecord("T1"),
   DeltaRecord("text_delta", "d1"),
   AssistantRecord(<<ToolUseBlock("c1", BridgedTool("x"))>>),
   AssistantRecord(<<ToolUseBlock("c2", BuiltinTool("Read"))>>),
   ResultRecord("success", FALSE, TRUE, 3, 5, "", ""),
   ResultRecord("success", TRUE, TRUE, 3, 5, "boom", "")}

InitSetup == Init /\ ~isRoot

NextSetup ==
  \/ ChatCall("t1", ChatSettings, {<<Message("user", "prompt")>>})
  \/ ChatStart("t1")
  \/ ChatSetup("t1", FailingSetups)
  \/ CliStart("t1", SeqsUpTo(SetupLines, MaxToolLines))
  \/ ReadLine("t1")
  \/ ReadEof("t1")
  \/ ChildClose("t1", ExitCodes)
  \/ ExitResolved("t1")
  \/ ChatEvent("t1")
  \/ ChatStreamEnd("t1")
  \/ ChatContinue("t1")
  \/ ChatWaitForResult("t1")
  \/ ChatBuiltinEnd("t1")
  \/ WaitTimeout("t1")
  \/ ChatFinish("t1")
  \/ ChatReturn("t1")

SpecSetup == InitSetup /\ [][NextSetup]_vars

\* SpecRelay: one tool relay, its clients and the callers of waitForResult.
Connections == {"k1", "k2"}
\* The connections whose socket may emit an error.  The connections differ
\* in their names only, so one that fails and one that does not cover the
\* failures of a single connection.
FailingConnections == {"k1"}

RelayLines ==
  {RelayBlank, RelayNonJson, RelayNull,
   ExecuteRecord("a", "x"), ExecuteRecord("b", "y"),
   OtherRecord("a", "tools/list")}

\* startToolRelay resolves: the server is listening.
RelayListen(t) ==
  /\ relay[t].state = "none"
  /\ SetRelay(t, [NoRelay EXCEPT !.state = "listening"])
  /\ UNCHANGED <<cli, child, chat, sessionMap, isRoot, bridge, reader>>

\* A socket delivers a line.  A closed server accepts no new connection;
\* the connections it has stay open.
RelayReceive(t) ==
  /\ relay[t].state # "none"
  /\ Len(relay[t].received) < MaxRecords
  /\ \E conn \in Connections \ relay[t].errored, line \in RelayLines :
       /\ \/ relay[t].state = "listening"
          \/ \E k \in 1..Len(relay[t].received) : relay[t].received[k].conn = conn
       /\ SetRelay(t, HandleRelayMessage(relay[t], conn, line, Undefined))
  /\ UNCHANGED <<cli, child, chat, sessionMap, isRoot, bridge, reader>>

\* The socket of a connection emits an error; it delivers no line after it.
RelaySocketError(t) ==
  /\ relay[t].state # "none"
  /\ \E conn \in FailingConnections \ relay[t].errored :
       /\ \/ relay[t].state = "listening"
          \/ \E k \in 1..Len(relay[t].received) : relay[t].received[k].conn = conn
       /\ SetRelay(t, SocketError(relay[t], conn))
  /\ UNCHANGED <<cli, child, chat, sessionMap, isRoot, bridge, reader>>

\* tools.execute resolves for a request.
RelayExecuteResolves(t) ==
  /\ \E n \in Executing(relay[t]), result \in ToolResults :
       SetRelay(t, ExecuteResolved(relay[t], n, result))
  /\ UNCHANGED <<cli, child, chat, sessionMap, isRoot, bridge, reader>>

\* A holder of the ToolRelayServer calls waitForResult().
RelayWaitForResult(t) ==
  /\ relay[t].state # "none"
  /\ Len(relay[t].calls) < MaxCalls
  /\ SetRelay(t, WaitForResult(relay[t]))
  /\ UNCHANGED <<cli, child, chat, sessionMap, isRoot, bridge, reader>>

\* The timer of a registered waiter fires.
RelayTimerFires(t) ==
  /\ \E i \in 1..Len(relay[t].resultWaiters) :
       SetRelay(t, TimerFired(relay[t], relay[t].resultWaiters[i]))
  /\ UNCHANGED <<cli, child, chat, sessionMap, isRoot, bridge, reader>>

\* The holder calls close().
RelayClose(t) ==
  /\ relay[t].state = "listening"
  /\ SetRelay(t, CloseRelay(relay[t]))
  /\ UNCHANGED <<cli, child, chat, sessionMap, isRoot, bridge, reader>>

InitRelay == Init /\ ~isRoot

NextRelay ==
  \/ RelayListen("t1")
  \/ RelayReceive("t1")
  \/ RelaySocketError("t1")
  \/ RelayExecuteResolves("t1")
  \/ ToolFailure("t1")
  \/ RelayWaitForResult("t1")
  \/ RelayTimerFires("t1")
  \/ RelayClose("t1")

SpecRelay == InitRelay /\ [][NextRelay]_vars

\* SpecBridge: one bridge program, its standard input and the connections
\* of its calls of callRelay.
BridgeLines ==
  {[RpcObject EXCEPT !.raw = "blank"],
   [RpcObject EXCEPT !.raw = "nonjson"],
   RpcRequest("1", "initialize"),
   RpcRequest(Undefined, "notifications/initialized"),
   RpcRequest("2", "tools/list"),
   RpcToolsCall("3", "x"),
   RpcToolsCall("4", "y"),
   [RpcObject EXCEPT !.id = "5", !.method = "tools/call"],
   RpcRequest("6", "resources/list")}

\* The lines the connection of call k may deliver: the response of the
\* relay to the call, with one of the results of the host, a response with
\* another id, and null.
ResponsesFor(k) ==
  {RelayResponse("object", FreshId(k), HostResult(TRUE, "d", Undefined)),
   RelayResponse("object", FreshId(k), HostResult(TRUE, Undefined, Undefined)),
   RelayResponse("object", FreshId(k), HostResult(FALSE, Undefined, "e")),
   RelayResponse("object", "zz", HostResult(TRUE, "other", Undefined)),
   RelayResponse("null", Undefined, NoResult)}

\* The messages of the errors of a socket.
SocketErrors == {"ECONNRESET", ""}

\* The agent writes a line to the standard input of the bridge program.
BridgeStdin(most) ==
  /\ Len(bridge.received) < most
  /\ \E line \in BridgeLines : bridge' = OnLine(bridge, line)
  /\ UNCHANGED <<cli, child, chat, relay, sessionMap, isRoot, reader>>

\* The connection of a call is established.
BridgeConnect ==
  /\ \E k \in 1..Len(bridge.calls) :
       /\ bridge.calls[k].conn = "connecting"
       /\ bridge' = OnConnect(bridge, k)
  /\ UNCHANGED <<cli, child, chat, relay, sessionMap, isRoot, reader>>

\* The lines the connections of the first k calls delivered.
RECURSIVE Delivered(_, _)
Delivered(b, k) ==
  IF k = 0 THEN 0 ELSE Len(b.calls[k].got) + Delivered(b, k - 1)

\* The connection of a call delivers a line; a connection ended by
\* client.end() still receives.
BridgeData(most) ==
  /\ Delivered(bridge, Len(bridge.calls)) < most
  /\ \E k \in 1..Len(bridge.calls) :
       /\ bridge.calls[k].conn \in {"open", "ended"}
       /\ \E resp \in ResponsesFor(k) : bridge' = OnData(bridge, k, resp)
  /\ UNCHANGED <<cli, child, chat, relay, sessionMap, isRoot, reader>>

\* The connection of a call fails, while it is made or after.
BridgeSocketError ==
  /\ \E k \in 1..Len(bridge.calls), message \in SocketErrors :
       /\ bridge.calls[k].conn \in {"connecting", "open", "ended"}
       /\ bridge' = OnError(bridge, k, message)
  /\ UNCHANGED <<cli, child, chat, relay, sessionMap, isRoot, reader>>

\* The timer of a call fires.
BridgeTimer ==
  /\ \E k \in 1..Len(bridge.calls) :
       /\ bridge.calls[k].timer = "set"
       /\ bridge' = OnTimer(bridge, k)
  /\ UNCHANGED <<cli, child, chat, relay, sessionMap, isRoot, reader>>

NextBridge ==
  \/ BridgeStdin(MaxBridgeLines)
  \/ BridgeConnect
  \/ BridgeData(MaxResponses)
  \/ BridgeSocketError
  \/ BridgeTimer

InitBridge == Init /\ ~isRoot

SpecBridge == InitBridge /\ [][NextBridge]_vars

\* SpecBridgeLive: a bridge program whose timers, once set, fire in the end
\* (setTimeout, and nothing clears them).
NextBridgeLive ==
  \/ BridgeStdin(MaxLiveLines)
  \/ BridgeConnect
  \/ BridgeData(MaxLiveResponses)
  \/ BridgeSocketError
  \/ BridgeTimer

SpecBridgeLive ==
  InitBridge /\ [][NextBridgeLive]_vars /\ WF_vars(BridgeTimer)

\* SpecLines: readLines over a stream of bytes that arrives in chunks.
\* The chunks of stream s when it is cut after the positions in cuts.
RECURSIVE Chunked(_, _)
Chunked(s, cuts) ==
  IF cuts = {} THEN (IF s = <<>> THEN <<>> ELSE <<s>>)
  ELSE LET c == CHOOSE k \in cuts : \A m \in cuts : k <= m
       IN <<SubSeq(s, 1, c)>>
            \o Chunked(SubSeq(s, c + 1, Len(s)), {k - c : k \in cuts \ {c}})

\* readLines(stream) and the first next(): the stream is given the bytes it
\* is going to carry and the chunks they arrive in (none of them empty).
ReaderCall ==
  /\ reader.pc = "none"
  /\ \E s \in SeqsUpTo(Bytes, MaxBytes) :
       \E cuts \in SUBSET (1..(Len(s) - 1)) :
         reader' = [NoReader EXCEPT !.pc = "awaitChunk", !.stream = s,
                                    !.chunks = Chunked(s, cuts)]
  /\ UNCHANGED <<cli, child, chat, relay, sessionMap, isRoot, bridge>>

ReaderChunk ==
  /\ reader.pc = "awaitChunk" /\ reader.chunks # <<>>
  /\ reader' = OnChunk(reader)
  /\ UNCHANGED <<cli, child, chat, relay, sessionMap, isRoot, bridge>>

ReaderEnd ==
  /\ reader.pc = "awaitChunk" /\ reader.chunks = <<>>
  /\ reader' = OnEnd(reader)
  /\ UNCHANGED <<cli, child, chat, relay, sessionMap, isRoot, bridge>>

\* next() on readLines suspended at a yield.
ReaderNext ==
  /\ reader.pc = "yielded"
  /\ reader' = ReaderRun(reader)
  /\ UNCHANGED <<cli, child, chat, relay, sessionMap, isRoot, bridge>>

NextLines == ReaderCall \/ ReaderChunk \/ ReaderEnd \/ ReaderNext

InitLines == Init /\ ~isRoot

SpecLines == InitLines /\ [][NextLines]_vars

\* ================================================================ claims
\* The run of runClaudeCode that Spec follows.
Run == cli["t1"]
Proc == child["t1"]

Indices(s, type) == {i \in 1..Len(s) : s[i].type = type}
Terminals(s) == {i \in 1..Len(s) : IsTerminal(s[i])}

\* The sequence was consumed to its end (not abandoned by the consumer).
Exhausted(f) == f.pc = "completed"

\* A record of a recognized type with the fields that type is read for.
WellShaped(line) ==
  /\ line.raw = "object"
  /\ line.type \in {"system", "content_block_delta", "assistant", "result"}
  /\ line.type = "system" => line.subtype = "init" /\ Truthy(line.session_id)
  /\ line.type = "content_block_delta" => line.delta # Undefined
  /\ line.type = "assistant" => line.hasContent

IsResult(line) == line.raw = "object" /\ line.type = "result"

\* subtype success, is_error false.
SuccessfulResult(line) ==
  IsResult(line) /\ line.subtype = "success" /\ ~line.is_error

ZeroTokens(line) ==
  line.hasUsage /\ line.input_tokens = 0 /\ line.output_tokens = 0

\* A well-formed output: well-shaped records, the last one a successful
\* result and no result before it.
EndsInSuccess(lines) ==
  /\ Len(lines) > 0
  /\ \A i \in 1..Len(lines) : WellShaped(lines[i])
  /\ \A i \in 1..(Len(lines) - 1) : ~IsResult(lines[i])
  /\ SuccessfulResult(Last(lines))

\* The result records of an output, by position.
ResultsAt(lines) == {i \in 1..Len(lines) : IsResult(lines[i])}
FirstResultAt(lines) ==
  CHOOSE i \in ResultsAt(lines) : \A j \in ResultsAt(lines) : i <= j

\* ---- C1
\* C1 (as stated): every event sequence produced by runClaudeCode and consumed
\* to its end contains exactly one terminal event (done or error), and it is
\* the last event of the sequence.
C1_ExactlyOneTerminal ==
  Exhausted(Run) =>
    /\ Cardinality(Terminals(Run.out)) = 1
    /\ IsTerminal(Last(Run.out))

\* C1 (amended): a sequence contains at most one terminal event and no event
\* follows it, whatever the subprocess writes afterwards; a sequence consumed
\* to its end has no terminal event only when the standard output ended
\* without a result record and the subprocess exited with code zero.
C1_AtMostOneTerminalLast ==
  /\ Cardinality(Terminals(Run.out)) <= 1
  /\ \A i \in Terminals(Run.out) : i = Len(Run.out)
  /\ Exhausted(Run) /\ Terminals(Run.out) = {} =>
       /\ Proc.state = "closed" /\ Proc.exitCode = "0"
       /\ Run.pos = Len(Proc.stdout)
       /\ ResultsAt(Proc.stdout) = {}

\* The sequence ended with a terminal event that followed other events, and
\* the subprocess wrote further lines after the record that caused it.
C1_Witness ==
  /\ Exhausted(Run)
  /\ Len(Run.out) >= 2
  /\ IsTerminal(Last(Run.out))
  /\ Run.pos < Len(Proc.stdout)

\* ---- C2
\* C2 (as stated): for a well-formed output that ends in a successful result
\* record (subtype success, is_error false), the sequence has exactly one
\* done, as its final element, and no error.
C2_SuccessGivesDone ==
  Exhausted(Run) /\ EndsInSuccess(Proc.stdout) =>
    /\ Cardinality(Indices(Run.out, "done")) = 1
    /\ Last(Run.out).type = "done"
    /\ Indices(Run.out, "error") = {}

\* C2 (amended): the same, for a successful result record whose usage is
\* absent or is not zero input and zero output tokens.
C2_NonEmptySuccessGivesDone ==
  Exhausted(Run) /\ EndsInSuccess(Proc.stdout) /\ ~ZeroTokens(Last(Proc.stdout)) =>
    /\ Cardinality(Indices(Run.out, "done")) = 1
    /\ Last(Run.out).type = "done"
    /\ Indices(Run.out, "error") = {}

\* A well-formed output of several records was consumed and ended in done.
C2_Witness ==
  /\ Exhausted(Run)
  /\ EndsInSuccess(Proc.stdout)
  /\ Len(Proc.stdout) >= 2
  /\ Len(Run.out) >= 2
  /\ Last(Run.out).type = "done"

\* ---- C3
\* C3 (as stated): for an output that contains a result record with is_error
\* true, the final element of the sequence is an error event.
C3_ErrorResultGivesError ==
  (/\ Exhausted(Run)
   /\ \E i \in ResultsAt(Proc.stdout) : Proc.stdout[i].is_error)
  => Last(Run.out).type = "error"

\* C3 (amended): for an output whose first result record has is_error true,
\* the final element of the sequence is an error event, regardless of the
\* records that precede that result record.
C3_FirstErrorResultGivesError ==
  (/\ Exhausted(Run)
   /\ ResultsAt(Proc.stdout) # {}
   /\ Proc.stdout[FirstResultAt(Proc.stdout)].is_error)
  => Last(Run.out).type = "error"

\* An is_error result was reached after content had been produced.
C3_Witness ==
  /\ Exhausted(Run)
  /\ ResultsAt(Proc.stdout) # {}
  /\ Proc.stdout[FirstResultAt(Proc.stdout)].is_error
  /\ FirstResultAt(Proc.stdout) >= 2
  /\ Indices(Run.out, "content") # {}
  /\ Last(Run.src) = <<FirstResultAt(Proc.stdout), 0>>

\* ---- C4
\* The events caused by stdout line i.
CausedBy(f, i) == {k \in 1..Len(f.out) : f.src[k][1] = i}

\* C4: a result record that is otherwise successful but whose usage has zero
\* input and zero output tokens makes runClaudeCode yield error, and the run
\* never yields done.
C4_ZeroTokensGiveError ==
  \A i \in 1..Len(Proc.stdout) :
    (/\ SuccessfulResult(Proc.stdout[i]) /\ ZeroTokens(Proc.stdout[i])
     /\ Run.pos >= i /\ Run.pc # "readLine" /\ CausedBy(Run, i) # {})
    => /\ \A k \in CausedBy(Run, i) : Run.out[k].type = "error"
       /\ Indices(Run.out, "done") = {}

\* A zero-token successful result was handled after other events.
C4_Witness ==
  /\ Exhausted(Run)
  /\ Run.pos >= 2
  /\ SuccessfulResult(Proc.stdout[Run.pos]) /\ ZeroTokens(Proc.stdout[Run.pos])
  /\ Len(Run.out) >= 2
  /\ Last(Run.out).type = "error"

\* ---- C5
\* The frame at the head of the for-await loop, nothing read yet.
LoopStart == [NoFrame EXCEPT !.pc = "readLine"]

\* The generator driven over lines by a consumer that always asks for the
\* next event: the frame when the lines are used up or the body has ended.
RECURSIVE Drive(_, _)
Drive(f, lines) ==
  IF f.pc = "readLine"
    THEN IF f.pos < Len(lines) THEN Drive(ProcessLine(f, lines[f.pos + 1]), lines)
         ELSE f
  ELSE IF f.pc \in {"yielded", "yieldedLast"} THEN Drive(ResumeGen(f), lines)
  ELSE f

Parses(line) == line.raw \notin {"blank", "nonjson"}

\* The events of out that a stdout line caused (not the error synthesized
\* before the loop or after the process exit).
LineEvents(f, lines) ==
  SelectSeq([k \in 1..Len(f.out) |-> [e |-> f.out[k], at |-> f.src[k][1]]],
            LAMBDA x : x.at \in 1..Len(lines))

EventsOnly(tagged) == [k \in 1..Len(tagged) |-> tagged[k].e]

\* C5: lines that do not parse as JSON produce no event, and the events
\* produced for the remaining lines are those produced when the unparsable
\* lines are absent.
C5_UnparsableLinesIgnored ==
  /\ \A k \in 1..Len(Run.out) :
       Run.src[k][1] \in 1..Len(Proc.stdout) => Parses(Proc.stdout[Run.src[k][1]])
  /\ Run.pc \in {"awaitExit", "completed"} =>
       EventsOnly(LineEvents(Run, Proc.stdout))
         = Drive(LoopStart, SelectSeq(Proc.stdout, Parses)).out

\* Unparsable lines stood before and between records that produced events.
C5_Witness ==
  /\ Run.pc = "awaitExit"
  /\ Len(Proc.stdout) = 3
  /\ ~Parses(Proc.stdout[1]) /\ Proc.stdout[1].raw = "nonjson"
  /\ ~Parses(Proc.stdout[3])
  /\ Len(Run.out) >= 2

\* ---- C6
\* Lexicographic order on <<line, block>>.
Before(a, b) == a[1] < b[1] \/ (a[1] = b[1] /\ a[2] < b[2])

\* The event that block b of stdout line i (b = 0: the record itself) yields.
Emits(line, b) ==
  IF b = 0
    THEN \/ line.type = "system" /\ line.subtype = "init"
         \/ line.type = "content_block_delta"
              /\ line.delta \in {"text_delta", "thinking_delta"}
         \/ line.type = "result"
    ELSE line.type = "assistant" /\ b <= Len(line.content)
           /\ line.content[b].type \in {"text", "tool_use"}

\* The places of an output that yield an event, in the order of the output.
RECURSIVE EmitPlaces(_, _, _)
EmitPlaces(lines, i, b) ==
  IF i > Len(lines) THEN <<>>
  ELSE IF ~Parses(lines[i]) THEN EmitPlaces(lines, i + 1, 0)
  ELSE IF b > Len(lines[i].content) THEN EmitPlaces(lines, i + 1, 0)
  ELSE (IF Emits(lines[i], b) THEN <<(<<i, b>>)>> ELSE <<>>)
         \o EmitPlaces(lines, i, b + 1)

KindAt(line, b) ==
  IF b > 0 THEN (IF line.content[b].type = "text" THEN "content" ELSE "tool_start")
  ELSE IF line.type = "system" THEN "session_init"
  ELSE IF line.type = "content_block_delta"
    THEN (IF line.delta = "text_delta" THEN "content" ELSE "thinking")
  ELSE "terminal"

\* C6: the events appear in the order of the records, and inside an
\* assistant record of the content blocks, that caused them: none is
\* reordered, duplicated or yielded before an event of an earlier record.
C6_EventsInStdoutOrder ==
  /\ \A j, k \in 1..Len(Run.src) : j < k => Before(Run.src[j], Run.src[k])
  /\ \A k \in 1..Len(Run.out) :
       LET i == Run.src[k][1]
           b == Run.src[k][2]
       IN (i \in 1..Len(Proc.stdout) /\ Proc.stdout[i].raw = "object"
           /\ (b > 0 \/ Proc.stdout[i].type # "assistant")
           /\ (Proc.stdout[i].type = "content_block_delta"
                 => Proc.stdout[i].delta # Undefined))
          => /\ Emits(Proc.stdout[i], b)
             /\ IF KindAt(Proc.stdout[i], b) = "terminal"
                  THEN IsTerminal(Run.out[k])
                  ELSE Run.out[k].type = KindAt(Proc.stdout[i], b)
  /\ Run.pc = "awaitExit" => Run.src = EmitPlaces(Proc.stdout, 1, 0)

\* Two blocks of one assistant record and a later record each yielded.
C6_Witness ==
  /\ Run.pc = "awaitExit"
  /\ Len(Run.out) >= 3
  /\ Run.src[1][1] = Run.src[2][1]
  /\ Run.src[1][2] < Run.src[2][2]
  /\ Run.src[2][1] < Run.src[3][1]

\* ---- C7
\* The for-await loop ended because the standard output ended: every line
\* was read and none of them ended the body.
StdoutEnded(f, lines) ==
  /\ f.pc \in {"awaitExit", "yieldedLast", "completed"}
  /\ f.pos = Len(lines)
  /\ \A k \in 1..Len(f.out) : f.src[k][1] \in 1..Len(lines) => ~IsTerminal(f.out[k])
  /\ \A k \in 1..Len(f.out) : f.src[k][1] # 0

\* C7: when the standard output ends without a result record the adapter
\* waits for the process to exit; on a non-zero exit code or a spawn failure
\* it then yields exactly one error and ends, on exit code zero it yields
\* nothing more and the sequence ends without done or error.
C7_ExitAfterStdoutEnd ==
  StdoutEnded(Run, Proc.stdout) =>
    /\ Run.pc # "awaitExit" => Proc.state = "closed"
    /\ Run.pc = "awaitExit" => Terminals(Run.out) = {}
    /\ Run.pc # "awaitExit" /\ Proc.exitCode # "0" =>
         /\ Terminals(Run.out) = {Len(Run.out)}
         /\ Last(Run.out).type = "error"
         /\ Last(Run.src) = <<Len(Proc.stdout) + 1, 0>>
    /\ Run.pc # "awaitExit" /\ Proc.exitCode = "0" =>
         /\ Run.pc = "completed"
         /\ Terminals(Run.out) = {}

\* After some events the standard output ended and the process was found to
\* have exited with a non-zero code.
C7_Witness ==
  /\ StdoutEnded(Run, Proc.stdout)
  /\ Run.pc = "completed"
  /\ Proc.exitCode = "1"
  /\ Len(Run.out) >= 2
  /\ Last(Run.out).type = "error"

\* ---- C8
\* C8: once the sequence has been abandoned or has finished, the subprocess
\* is not left running without a termination having been requested.
C8_SubprocessTerminated ==
  Run.pc \in {"completed", "abandoned"} /\ Proc.state = "running" => Proc.killed

\* ---- C9
\* The turn that SpecChat follows.
Turn == chat["t1"]
TurnRelay == relay["t1"]

\* C9: on every path on which streamChat ends after the relay listener was
\* started, close is called exactly once before the turn finishes; it is
\* never called when no relay was started, and never twice.
C9_RelayClosedOnce ==
  /\ TurnRelay.closeCalls <= 1
  /\ TurnRelay.state = "none" => TurnRelay.closeCalls = 0
  /\ Turn.pc = "finished" =>
       TurnRelay.closeCalls = (IF TurnRelay.state = "none" THEN 0 ELSE 1)
  /\ Turn.pc = "finished" => TurnRelay.state # "listening"

\* The consumer abandoned a turn whose relay had been started, before any
\* terminal event, and the relay was closed.
C9_Witness ==
  /\ Turn.pc = "finished"
  /\ Turn.relay
  /\ Len(Turn.out) >= 1
  /\ Terminals(Turn.out) = {}
  /\ TurnRelay.closeCalls = 1

\* ---- C10
\* --resume immediately followed by token in an argument list.
HasResume(args, token) ==
  \E i \in 1..(Len(args) - 1) : args[i] = "--resume" /\ args[i + 1] = token

HasResumeFlag(args) == \E i \in 1..Len(args) : args[i] = "--resume"

InitsAt(lines) ==
  {i \in 1..Len(lines) :
     lines[i].raw = "object" /\ lines[i].type = "system" /\ lines[i].subtype = "init"}
LastInitToken(lines) ==
  lines[CHOOSE i \in InitsAt(lines) : \A j \in InitsAt(lines) : j <= i].session_id

\* The subprocess of turn t was invoked: spawn was called with an argument list.
Invoked(t) == child[t].state # "none"

\* Turn b started after turn a had ended, for the same conversation.
Follows(a, b) ==
  /\ a \in chat[b].after
  /\ chat[a].conversationId # Undefined
  /\ chat[a].conversationId = chat[b].conversationId

\* C10 (as stated): given two turns with the same conversation identifier
\* where the first turn's subprocess output contains an init record with
\* token T (and no later init record), the second turn's argument list has
\* the resume flag immediately followed by T.
C10_ResumeFromStdout ==
  \A a, b \in Turns :
    (/\ Follows(a, b) /\ Invoked(b)
     /\ InitsAt(child[a].stdout) # {})
    => HasResume(cli[b].args, LastInitToken(child[a].stdout))

\* The session_init events streamChat received from runClaudeCode in turn t.
SessionInits(t) == Indices(cli[t].out, "session_init")
LastSessionInit(t) ==
  cli[t].out[CHOOSE i \in SessionInits(t) : \A j \in SessionInits(t) : j <= i].sessionId

\* C10 (amended): given two turns with the same conversation identifier, the
\* second started after the first ended, where the event sequence of the
\* first turn contains a session_init with a non-empty token T (and no later
\* session_init), the second turn's argument list has the resume flag
\* immediately followed by T.
C10_ResumeFromSessionInit ==
  \A a, b \in Turns :
    (/\ Follows(a, b) /\ Invoked(b)
     /\ SessionInits(a) # {}
     /\ Truthy(LastSessionInit(a)))
    => HasResume(cli[b].args, LastSessionInit(a))

\* A second turn of the conversation was invoked with the token of the first.
C10_Witness ==
  /\ Follows("t1", "t2") /\ Invoked("t2")
  /\ SessionInits("t1") # {}
  /\ LastSessionInit("t1") = "T2"
  /\ HasResume(cli["t2"].args, "T2")

\* ---- C11
\* Turn t is at the case 'session_init' of the switch: runClaudeCode is
\* suspended at the yield of that event and streamChat is about to handle it.
Observing(t) ==
  /\ chat[t].pc = "awaitCli"
  /\ cli[t].pc \in {"yielded", "yieldedLast"}
  /\ CurrentEvent(t).type = "session_init"

\* The step in which turn t handles that event and asks for the next one.
Observes(t) ==
  /\ Observing(t)
  /\ cli'[t] # cli[t]
  /\ chat'[t].pc = "awaitCli"

\* The tokens a session_init can carry.
Tokens == {"T1", "T2", ""}

\* C11: the session registry holds at most one token per conversation
\* identifier; each observed session_init sets the entry of its turn's
\* conversation to its token and leaves the other entries alone, nothing else
\* changes the registry (so an entry is the token of the most recently
\* observed session_init of its conversation, whichever turn observed it),
\* and an entry, once present, is never removed.
C11_RegistryLastWriterWins ==
  /\ [](\A k \in DOMAIN sessionMap : sessionMap[k] \in Tokens)
  /\ [][/\ DOMAIN sessionMap \subseteq DOMAIN sessionMap'
        /\ \A t \in Turns :
             Observes(t) =>
               /\ chat[t].conversationId \in DOMAIN sessionMap'
               /\ sessionMap'[chat[t].conversationId] = CurrentEvent(t).sessionId
               /\ \A k \in DOMAIN sessionMap' \ {chat[t].conversationId} :
                    k \in DOMAIN sessionMap /\ sessionMap'[k] = sessionMap[k]
        /\ (\A t \in Turns : ~Observes(t)) => sessionMap' = sessionMap]_vars

\* Two overlapping turns of one conversation each observed a session_init,
\* with different tokens, the second ended in an error, and the registry
\* holds one of the two tokens while another conversation's entry is absent.
C11_Witness ==
  /\ chat["t1"].pc = "finished" /\ chat["t2"].pc = "finished"
  /\ "t1" \notin chat["t2"].after
  /\ chat["t1"].conversationId = chat["t2"].conversationId
  /\ SessionInits("t1") # {} /\ SessionInits("t2") # {}
  /\ LastSessionInit("t1") # LastSessionInit("t2")
  /\ Last(chat["t2"].out).type = "error"
  /\ DOMAIN sessionMap = {chat["t1"].conversationId}
  /\ sessionMap[chat["t1"].conversationId] \in
       {LastSessionInit("t1"), LastSessionInit("t2")}

\* ---- C12
\* The tokens of the session_init events turn t observed.
IssuedIn(t) == {cli[t].out[i].sessionId : i \in SessionInits(t)}

\* C12: a turn of one conversation is never invoked with a resume token
\* issued by a session_init observed in a turn of a different conversation,
\* also when the caller's settings supply no conversationId.
C12_OwnSession ==
  \A a, b \in Turns :
    (/\ Invoked(b)
     /\ chat[a].conversation # Undefined
     /\ chat[a].conversation # chat[b].conversation)
    => \A token \in IssuedIn(a) : ~HasResume(cli[b].args, token)

\* ---- C13
\* The relay that SpecRelay follows.
Relay == relay["t1"]

IsExecute(line) == line.raw = "object" /\ line.method = "execute"

\* The responses written by the handler of request n.
ResponsesTo(r, n) == {k \in 1..Len(r.written) : r.written[k].request = n}

\* The calls of waitForResult whose promise was resolved.
ResolvedCalls(r) == {w \in 1..Len(r.calls) : r.calls[w].resolved}

\* C13: every execute record received on a connection leads to one call of
\* the host's execute; once that call resolves with result r, exactly one
\* response {id, result: r} with the id of that record has been written to
\* that connection and exactly one value r has been handed on (one waiter
\* resolved or one queue entry added); with several requests in flight each
\* response carries the id of its own request.
C13_OneResponsePerRequest ==
  /\ LET executes == SelectSeq(Relay.received, LAMBDA x : IsExecute(x.line)) IN
     /\ Len(Relay.requests) = Len(executes)
     /\ \A n \in 1..Len(executes) :
          /\ Relay.requests[n].conn = executes[n].conn
          /\ Relay.requests[n].id = executes[n].line.id
  /\ \A n \in 1..Len(Relay.requests) :
       IF Relay.requests[n].status = "resolved"
         THEN /\ Cardinality(ResponsesTo(Relay, n)) = 1
              /\ \A k \in ResponsesTo(Relay, n) :
                   /\ Relay.written[k].conn = Relay.requests[n].conn
                   /\ Relay.written[k].id = Relay.requests[n].id
                   /\ Relay.written[k].result = Relay.requests[n].result
         ELSE ResponsesTo(Relay, n) = {}
  /\ Len(Relay.handed) = Len(Relay.written)
  /\ \A k \in 1..Len(Relay.handed) : Relay.handed[k] = Relay.written[k].result
  /\ Cardinality(ResolvedCalls(Relay)) + Len(Relay.resultQueue) = Len(Relay.handed)

\* Two requests with different ids were in flight on different connections
\* and were answered in the reverse order; one result has been received by
\* a caller of waitForResult and one is queued.
C13_Witness ==
  /\ Len(Relay.requests) = 2 /\ Len(Relay.written) = 2
  /\ Relay.requests[1].conn # Relay.requests[2].conn
  /\ Relay.requests[1].id # Relay.requests[2].id
  /\ Relay.written[1].request = 2 /\ Relay.written[2].request = 1
  /\ Relay.written[1].result # Relay.written[2].result
  /\ Cardinality(ResolvedCalls(Relay)) = 1
  /\ Len(Relay.resultQueue) = 1

\* ---- C14
\* C14: a line that does not parse as JSON, or a record whose method is not
\* execute, causes no call of the host's execute, no response and no change
\* of the result queue or the waiter list: the step that receives it changes
\* nothing but the record of received lines; and every execute record, also
\* one that follows such a line on the same or another connection, is
\* handled.
C14_UnrecognizedIgnored ==
  /\ [](Len(Relay.requests)
          = Len(SelectSeq(Relay.received, LAMBDA x : IsExecute(x.line))))
  /\ [][(/\ Len(Relay'.received) = Len(Relay.received) + 1
         /\ ~IsExecute(Last(Relay'.received).line))
        => Relay' = [Relay EXCEPT !.received = Relay'.received,
                                  !.logged = Relay'.logged]]_vars

\* An execute record that followed an unparsable line on its connection was
\* answered.
C14_Witness ==
  /\ Len(Relay.received) = 2
  /\ Relay.received[1].line = RelayNonJson
  /\ IsExecute(Relay.received[2].line)
  /\ Relay.received[2].conn = Relay.received[1].conn
  /\ Len(Relay.written) = 1
  /\ Len(Relay.resultQueue) = 1

\* ---- C15
\* The waiters registered in the waiter list.
Registered(r) == {r.resultWaiters[i] : i \in 1..Len(r.resultWaiters)}

\* C15: a waitForResult call made with nothing queued whose timer fires is
\* rejected and its waiter leaves the waiter list in that step; a result
\* that completes afterwards is never delivered to it, and no waiter is both
\* rejected and resolved.
C15_TimedOutWaiterDeregistered ==
  /\ [](\A w \in 1..Len(Relay.calls) :
          /\ ~(Relay.calls[w].rejected /\ Relay.calls[w].resolved)
          /\ w \in Registered(Relay)
               <=> (~Relay.calls[w].rejected /\ ~Relay.calls[w].resolved))
  /\ [][\A w \in 1..Len(Relay.calls) :
          /\ (~Relay.calls[w].rejected /\ Relay'.calls[w].rejected)
               => /\ w \in Registered(Relay) /\ w \notin Registered(Relay')
                  /\ Len(Relay'.handed) = Len(Relay.handed)
          /\ Relay.calls[w].rejected => Relay'.calls[w] = Relay.calls[w]]_vars

\* The first call timed out; a result completed afterwards and is queued.
C15_Witness ==
  /\ Len(Relay.calls) = 1
  /\ Relay.calls[1].rejected
  /\ Relay.calls[1].value = Undefined
  /\ Len(Relay.handed) = 1
  /\ Relay.resultQueue = Relay.handed
  /\ Relay.resultWaiters = <<>>

\* ---- C16
\* The values the resolved calls of waitForResult received, in the order of
\* the calls.
RECURSIVE ReceivedFrom(_, _)
ReceivedFrom(r, w) ==
  IF w > Len(r.calls) THEN <<>>
  ELSE (IF r.calls[w].resolved THEN <<r.calls[w].value>> ELSE <<>>)
         \o ReceivedFrom(r, w + 1)

\* C16: results reach the callers of waitForResult in the order in which the
\* host executions complete: the k-th result handed to onToolResult is
\* received by the k-th call that does not time out, queued or not, and
\* waiters are served in the order they registered (no call is resolved
\* while an earlier one is still waiting).
C16_ResultsInCompletionOrder ==
  /\ ReceivedFrom(Relay, 1) \o Relay.resultQueue = Relay.handed
  /\ \A v, w \in 1..Len(Relay.calls) :
       (v < w /\ v \in Registered(Relay)) => ~Relay.calls[w].resolved
  /\ \A i, j \in 1..Len(Relay.resultWaiters) :
       i < j => Relay.resultWaiters[i] < Relay.resultWaiters[j]
  /\ Relay.resultQueue # <<>> => Relay.resultWaiters = <<>>

\* Two executions completed in the reverse order of their requests with
\* different results; two callers received them in the order of completion.
C16_Witness ==
  /\ Len(Relay.written) = 2
  /\ Relay.written[1].request = 2 /\ Relay.written[2].request = 1
  /\ Len(Relay.calls) = 2
  /\ Relay.calls[1].resolved /\ Relay.calls[2].resolved
  /\ Relay.calls[1].value = Relay.written[1].result
  /\ Relay.calls[2].value = Relay.written[2].result
  /\ Relay.calls[1].value # Relay.calls[2].value

\* ---- C17
\* The tool calls of turn t that streamChat takes to the relay: the
\* tool_start events of runClaudeCode with a prefixed name, a relay being set.
BridgedStarts(t) ==
  {cli[t].out[i].toolCallId :
     i \in {k \in Indices(cli[t].out, "tool_start") :
              chat[t].relay /\ StartsWithPrefix(cli[t].out[k].name)}}

\* The results of the host executions that tool call c of turn t triggered.
ResultsOf(t, c) ==
  {relay[t].requests[n].result :
     n \in {k \in 1..Len(relay[t].requests) :
              /\ relay[t].requests[k].call = c
              /\ relay[t].requests[k].status = "resolved"}}

\* The output of a tool_end whose wait for a result failed.
Degraded == "completed"

\* C17: for every bridged tool_start with call id c that streamChat
\* surfaces, the output of the tool_end with the same id c is the result of
\* the host execution triggered by that invocation (or the degraded output
\* of a failed wait), never the result of a different tool call.
C17_ResultOfOwnCall ==
  \A k \in Indices(Turn.out, "tool_end") :
    Turn.out[k].toolCallId \in BridgedStarts("t1")
      => Turn.out[k].output \in ResultsOf("t1", Turn.out[k].toolCallId) \cup {Degraded}

\* ---- C18
\* The toolCallIds of the tool_start events of a sequence, in order.
StartIds(events) ==
  LET starts == SelectSeq(events, LAMBDA e : e.type = "tool_start")
  IN [k \in 1..Len(starts) |-> starts[k].toolCallId]

\* The tool_start that runClaudeCode has yielded and streamChat has not yet
\* taken from the stream.
Untaken(t) ==
  IF /\ chat[t].pc = "awaitCli" /\ cli[t].pc \in {"yielded", "yieldedLast"}
     /\ CurrentEvent(t).type = "tool_start"
    THEN 1 ELSE 0

\* The consumer abandoned turn t at the yield of a tool_start.
AbandonedAtToolStart(t) ==
  /\ chat[t].pc = "finished"
  /\ cli[t].pc = "abandoned"
  /\ Last(chat[t].out).type = "tool_start"

\* C18: for every tool_start received from the CLI stream streamChat yields
\* a tool_start immediately followed by a tool_end with the same toolCallId
\* and the same name, no other event between them; every surfaced tool_start
\* has exactly one matching tool_end (the last one has none yet while the
\* turn is suspended at it or waits for its result, or when the consumer
\* abandoned the turn at it).
C18_ToolStartThenToolEnd ==
  /\ Len(StartIds(Turn.out)) + Untaken("t1") = Len(StartIds(cli["t1"].out))
  /\ \A k \in 1..Len(StartIds(Turn.out)) :
       StartIds(Turn.out)[k] = StartIds(cli["t1"].out)[k]
  /\ \A k \in Indices(Turn.out, "tool_start") :
       IF k < Len(Turn.out)
         THEN /\ Turn.out[k + 1].type = "tool_end"
              /\ Turn.out[k + 1].toolCallId = Turn.out[k].toolCallId
              /\ Turn.out[k + 1].name = Turn.out[k].name
         ELSE \/ Turn.pc \in {"yieldedToolStart", "yieldedBuiltinStart", "awaitResult"}
              \/ AbandonedAtToolStart("t1")
  /\ \A k \in Indices(Turn.out, "tool_end") :
       k > 1 /\ Turn.out[k - 1].type = "tool_start"

\* A turn consumed to its end surfaced two bridged tool calls, one with the
\* result of an execution and one after a failed wait, each tool_start
\* directly followed by its tool_end.
C18_Witness ==
  /\ Turn.pc = "finished"
  /\ cli["t1"].pc = "completed"
  /\ Turn.relay
  /\ Len(Turn.out) >= 4
  /\ Turn.out[1].type = "tool_start" /\ Turn.out[2].type = "tool_end"
  /\ Turn.out[3].type = "tool_start" /\ Turn.out[4].type = "tool_end"
  /\ Turn.out[2].output # Turn.out[4].output
  /\ Turn.out[1].toolCallId # Turn.out[3].toolCallId

\* ---- C19
\* C19: when the wait for a bridged tool's result fails by its timeout,
\* streamChat yields neither an error nor ends the turn: the step yields the
\* tool_end of that call id with the degraded output and leaves streamChat
\* at a yield from which it goes on consuming the CLI stream.
C19_TimeoutDegradesToolEnd ==
  [][(/\ Turn.pc = "awaitResult"
      /\ Cardinality({w \in 1..Len(TurnRelay.calls) : TurnRelay'.calls[w].rejected})
           > Cardinality({w \in 1..Len(TurnRelay.calls) : TurnRelay.calls[w].rejected}))
     => /\ Turn'.pc = "yielded"
        /\ Turn'.out = Append(Turn.out,
                              ToolEndEvent(Last(Turn.out).name,
                                           Last(Turn.out).toolCallId, Degraded))
        /\ Last(Turn.out).type = "tool_start"
        /\ cli'["t1"] = cli["t1"]
        /\ cli["t1"].pc = "yielded"]_vars

\* After a wait that timed out and its degraded tool_end, the next tool call
\* of the turn was surfaced and got the result of an execution.
C19_Witness ==
  /\ Len(TurnRelay.calls) = 2
  /\ TurnRelay.calls[1].rejected
  /\ TurnRelay.calls[2].resolved
  /\ Len(Turn.out) >= 4
  /\ Turn.out[2].type = "tool_end" /\ Turn.out[2].output = Degraded
  /\ Turn.out[3].type = "tool_start"
  /\ Turn.out[4].type = "tool_end" /\ Turn.out[4].output \in ToolResults
  /\ Indices(Turn.out, "error") = {}

\* ---- C20
\* C20: once a turn has completed, on any path, the removal of every
\* temporary file createMcpConfigFile created for it has been attempted: the
\* MCP config file and, when the bridge script was written to a file of its
\* own, that script file.
C20_TemporaryFilesRemoved ==
  Turn.pc = "finished" => Turn.created \subseteq Turn.unlinked

\* ---- C21
\* The records the bridge program wrote for line n of its standard input.
RepliesTo(b, n) == {k \in 1..Len(b.sent) : b.sent[k].request = n}

\* The calls of callRelay made for line n.
CallsFor(b, n) == {k \in 1..Len(b.calls) : b.calls[k].request = n}

\* The handler of line n has run to its end.
Handled(b, n) == \A k \in CallsFor(b, n) : b.calls[k].promise # "pending"

\* C21: the bridge program answers each input record according to its
\* method: initialize gets exactly one result with the fixed protocol
\* version, capabilities and server info; tools/list exactly one result with
\* the tool list; tools/call exactly one result with a text content block
\* and an isError flag (none while its relay call is pending);
\* notifications/initialized, like a line that is no record, gets no output;
\* any other method gets exactly one error with code -32601; and each reply
\* carries the id of the request that caused it.
C21_ReplyByMethod ==
  /\ \A k \in 1..Len(bridge.sent) :
       /\ bridge.sent[k].request \in 1..Len(bridge.received)
       /\ bridge.received[bridge.sent[k].request].raw = "object"
       /\ bridge.sent[k].id = bridge.received[bridge.sent[k].request].id
  /\ \A n \in 1..Len(bridge.received) :
       LET line == bridge.received[n]
           replies == RepliesTo(bridge, n)
       IN IF line.raw # "object" \/ line.method = "notifications/initialized"
            THEN replies = {}
          ELSE IF line.method = "initialize"
            THEN /\ Cardinality(replies) = 1
                 /\ \A k \in replies :
                      /\ bridge.sent[k].kind = "result"
                      /\ bridge.sent[k].body
                           = <<"protocolVersion", "2024-11-05", "capabilities",
                               "tools", "serverInfo", "stina-tools", "1.0.0">>
          ELSE IF line.method = "tools/list"
            THEN /\ Cardinality(replies) = 1
                 /\ \A k \in replies :
                      /\ bridge.sent[k].kind = "result"
                      /\ bridge.sent[k].body = <<"tools", "TOOLS">>
          ELSE IF line.method = "tools/call"
            THEN /\ Cardinality(replies) = (IF Handled(bridge, n) THEN 1 ELSE 0)
                 /\ \A k \in replies :
                      /\ bridge.sent[k].kind = "result"
                      /\ Len(bridge.sent[k].body) = 3
                      /\ bridge.sent[k].body[1] = "content"
                      /\ bridge.sent[k].body[2] = "text"
                      /\ bridge.sent[k].hasIsError
          ELSE /\ Cardinality(replies) = 1
               /\ \A k \in replies :
                    /\ bridge.sent[k].kind = "error"
                    /\ bridge.sent[k].code = 32601

\* Two tools/call requests with different ids were in flight together and
\* were answered in the reverse order, one with the result of the relay and
\* one with an error, each reply with the id of its own request.
C21_Witness ==
  /\ Len(bridge.received) = 2 /\ Len(bridge.sent) = 2
  /\ bridge.received[1].method = "tools/call"
  /\ bridge.received[2].method = "tools/call"
  /\ bridge.received[1].id # bridge.received[2].id
  /\ bridge.sent[1].request = 2 /\ bridge.sent[2].request = 1
  /\ ~bridge.sent[1].isError /\ bridge.sent[2].isError
  /\ bridge.sent[1].id = bridge.received[2].id
  /\ bridge.sent[2].id = bridge.received[1].id

\* ---- C22
IsToolsCall(line) == line.raw = "object" /\ line.method = "tools/call"

\* The lines call k got that carry its correlation id.
Matching(c) ==
  {i \in 1..Len(c.got) : c.got[i].raw = "object" /\ c.got[i].id = c.id}

\* C22: every tools/call request the bridge program handles eventually
\* receives exactly one reply, and never a second one.  The reply is the
\* success payload made from the result of the first response that carries
\* the correlation id of the call, when that response arrives before the
\* connection fails or the 30 s timer fires; otherwise it is an error
\* payload, sent when the connection fails or the timer fires.  A response
\* with another id produces no reply, and a timer or an error after the
\* reply changes nothing that was sent.
C22_OneReplyPerCall ==
  /\ \A n \in 1..MaxLiveLines :
       (Len(bridge.received) >= n /\ IsToolsCall(bridge.received[n]))
         ~> (Cardinality(RepliesTo(bridge, n)) = 1)
  /\ [](\A k \in 1..Len(bridge.calls) :
          LET c == bridge.calls[k]
              n == c.request
              id == bridge.received[n].id
              replies == RepliesTo(bridge, n)
          IN /\ Cardinality(replies) <= 1
             /\ c.id # Undefined => \A j \in 1..Len(bridge.calls) :
                                      j # k => bridge.calls[j].id # c.id
             /\ c.promise = "pending" => replies = {} /\ Matching(c) = {}
             /\ c.promise = "resolved" =>
                  /\ Matching(c) # {}
                  /\ \E i \in Matching(c) :
                       /\ c.value = c.got[i].result
                       /\ \A r \in replies :
                            bridge.sent[r]
                              = ToolsCallReply(n, id, ResultText(c.got[i].result),
                                               ~c.got[i].result.success)
                  /\ replies # {}
             /\ c.promise = "rejected" =>
                  /\ c.conn = "failed" \/ c.timer = "fired"
                  /\ replies # {}
                  /\ c.reason = "timeout" => c.timer = "fired"
                  /\ \A r \in replies :
                       bridge.sent[r]
                         = ToolsCallReply(n, id, OrElse(c.reason, "Unknown error"),
                                          TRUE))
  /\ [][\A k \in 1..Len(bridge.calls) :
          (bridge.calls[k].promise # "pending"
             \/ (/\ Len(bridge'.calls[k].got) > Len(bridge.calls[k].got)
                 /\ LET resp == Last(bridge'.calls[k].got) IN
                      resp.raw # "object" \/ resp.id # bridge.calls[k].id))
          => /\ RepliesTo(bridge', bridge.calls[k].request)
                  = RepliesTo(bridge, bridge.calls[k].request)
             /\ bridge'.calls[k].promise = bridge.calls[k].promise
             /\ bridge'.calls[k].value = bridge.calls[k].value
             /\ bridge'.calls[k].reason = bridge.calls[k].reason]_vars

\* A call got a response with another id, which was ignored, then the
\* response with its own id, and was answered with the success payload; its
\* timer fired afterwards without a second reply.
C22_Witness ==
  /\ Len(bridge.calls) = 1 /\ Len(bridge.sent) = 1
  /\ Len(bridge.calls[1].got) = 2
  /\ bridge.calls[1].got[1].raw = "object"
  /\ bridge.calls[1].got[1].id # bridge.calls[1].id
  /\ bridge.calls[1].got[2].id = bridge.calls[1].id
  /\ bridge.calls[1].promise = "resolved"
  /\ bridge.calls[1].timer = "fired"
  /\ bridge.sent[1].request = bridge.calls[1].request
  /\ ~bridge.sent[1].isError

\* ---- C23
\* The allow-list flag followed, among its names, by the wildcard entry of
\* the host's bridged tools.
HasWildcard(args) ==
  \E i, j \in 1..Len(args) :
    i < j /\ args[i] = "--allowedTools" /\ args[j] = "mcp__stina-tools__*"

\* C23: the argument list of every subprocess invocation contains the
\* allow-list flag with the wildcard entry mcp__stina-tools__*, whatever the
\* invocation options, also when the list of pre-approved names is absent
\* or empty.
C23_WildcardAlways ==
  Invoked("t1") => HasWildcard(Run.args)

\* ---- C24
\* C24: a socket error on a relay connection, or a call of the host's
\* execute that throws, is logged and absorbed: the step that logs it leaves
\* the listener as it was (close is not called), and leaves the result
\* queue, the waiter list, the pending waitForResult calls and the responses
\* written unchanged; the listener is closed only by close(); and every
\* execute record a connection delivers, also after such a failure on
\* another connection, gets its call of execute.
C24_FailuresAbsorbed ==
  /\ [](/\ Relay.state = "closed" <=> Relay.closeCalls > 0
        /\ Len(Relay.requests)
             = Len(SelectSeq(Relay.received, LAMBDA x : IsExecute(x.line)))
        /\ \A k \in 1..Len(Relay.written) :
             Relay.requests[Relay.written[k].request].status = "resolved")
  /\ [][Relay'.logged > Relay.logged
          => /\ Relay'.logged = Relay.logged + 1
             /\ Relay'.state = Relay.state
             /\ Relay'.closeCalls = Relay.closeCalls
             /\ Relay'.resultQueue = Relay.resultQueue
             /\ Relay'.resultWaiters = Relay.resultWaiters
             /\ Relay'.calls = Relay.calls
             /\ Relay'.handed = Relay.handed
             /\ Relay'.written = Relay.written]_vars

\* The host's execute threw for a request of one connection and the socket
\* of that connection failed, while a caller was waiting; an execute record
\* that another connection delivered afterwards was answered and its result
\* handed to the waiting caller, the listener still listening.
C24_Witness ==
  /\ Relay.state = "listening"
  /\ Relay.errored = {"k1"}
  /\ Relay.logged = 2
  /\ Len(Relay.requests) = 2
  /\ Relay.requests[1].conn = "k1" /\ Relay.requests[1].status = "rejected"
  /\ Relay.requests[2].conn = "k2" /\ Relay.requests[2].status = "resolved"
  /\ Len(Relay.written) = 1 /\ Relay.written[1].conn = "k2"
  /\ Len(Relay.calls) = 1 /\ Relay.calls[1].resolved

\* ---- C25
\* C25: the sequence of streamChat never holds more than one terminal event
\* (done or error), and a terminal event is its last event; a sequence that
\* ended without the consumer abandoning it holds exactly one; and when the
\* stream of runClaudeCode ended without a done and without an error, the
\* terminal event of streamChat is a done without usage.
C25_OneTerminalLast ==
  LET c == chat["t1"]
      T == Terminals(c.out)
  IN  /\ Cardinality(T) <= 1
      /\ \A i \in T : i = Len(c.out)
      /\ c.pc \in {"yieldedLast", "yieldedNoPrompt"} => Cardinality(T) = 1
      /\ c.pc = "finished" /\ ~c.abandoned => Cardinality(T) = 1
      /\ /\ T # {}
         /\ cli["t1"].pc = "completed"
         /\ Terminals(cli["t1"].out) = {}
         => /\ Last(c.out) = Event("done")
            /\ ~Last(c.out).hasUsage

\* The subprocess wrote a text delta and exited with code 0 without a result
\* record; the consumer took the sequence to its end: content, then a done
\* without usage.
C25_Witness ==
  LET c == chat["t1"] IN
  /\ c.pc = "finished" /\ ~c.abandoned
  /\ cli["t1"].pc = "completed"
  /\ Terminals(cli["t1"].out) = {}
  /\ Len(c.out) = 2
  /\ c.out[1].type = "content"
  /\ c.out[2] = Event("done")

\* ---- C26
\* The events of the run that were yielded for a result record, each with
\* its record.
ResultYields ==
  {<<Run.out[i], Proc.stdout[Run.src[i][1]]>> :
     i \in {j \in 1..Len(Run.out) :
              /\ Run.src[j][1] \in 1..Len(Proc.stdout)
              /\ Proc.stdout[Run.src[j][1]].raw = "object"
              /\ Proc.stdout[Run.src[j][1]].type = "result"}}

\* The message of the error for a record that signals an error: the result
\* field, else the error field, else the serialization cut to 500 characters.
ErrorDetail(line) ==
  IF line.result # "" THEN line.result
  ELSE IF line.error # "" THEN line.error
  ELSE IF line.long THEN "json:long[0,500)" ELSE "json"

\* The event of a result record, given whether the record signals an error.
Classified(e, line, signalsError) ==
  LET zero == line.hasUsage /\ line.input_tokens = 0 /\ line.output_tokens = 0 IN
  /\ signalsError => e = ErrorEvent(<<"Claude Code: ", ErrorDetail(line)>>)
  /\ ~signalsError /\ zero
       => /\ e.type = "error"
          /\ e.message[1] = "Claude Code returned empty result (0 tokens)"
  /\ ~signalsError /\ ~zero
       => /\ e.type = "done"
          /\ e.hasUsage = line.hasUsage
          /\ line.hasUsage => /\ e.inputTokens = line.input_tokens
                              /\ e.outputTokens = line.output_tokens

\* C26 (as amended): a result record whose is_error is true, or whose subtype
\* is a non-empty string other than success, gives an error whose message is
\* the result field, else the error field, else the dump cut to 500
\* characters, also when its usage is zero tokens; a record that does not
\* signal an error gives the zero-token error when its usage is 0 and 0;
\* every other result record gives done with the record's token counts, or
\* without usage when the record has none.
C26_ClassifiedInOrder ==
  \A y \in ResultYields :
    Classified(y[1], y[2],
               y[2].is_error \/ (y[2].subtype \notin {Undefined, "", "success"}))

\* C26 (as stated): the same with every subtype that is present and is not
\* success, the empty string included, signalling an error.
C26_PresentSubtypeSignalsError ==
  \A y \in ResultYields :
    Classified(y[1], y[2],
               y[2].is_error \/ (y[2].subtype \notin {Undefined, "success"}))

\* A result record with is_error true, zero tokens of usage, no result and
\* no error field and a serialization of more than 500 characters was
\* answered with the error that carries the cut dump.
C26_Witness ==
  \E y \in ResultYields :
    /\ y[2].is_error /\ y[2].subtype = "success"
    /\ y[2].hasUsage /\ y[2].input_tokens = 0 /\ y[2].output_tokens = 0
    /\ y[2].result = "" /\ y[2].error = "" /\ y[2].long
    /\ y[1] = ErrorEvent(<<"Claude Code: ", "json:long[0,500)">>)
    /\ Run.pc = "completed"

\* ---- C27
\* A line that JSON.parse accepts and that carries none of the recognized
\* discriminants: the JSON value null, or an object of another type.
Unrecognized(line) ==
  \/ line.raw = "null"
  \/ /\ line.raw = "object"
     /\ line.type \notin {"system", "content_block_delta", "assistant", "result"}

\* C27: a line that parses as JSON and whose discriminant is not a
\* recognized one produces no event and does not end the run: no event of
\* the run, terminal or not, was yielded for such a line.
C27_UnrecognizedDiscarded ==
  \A k \in 1..Len(Proc.stdout) :
    Unrecognized(Proc.stdout[k])
      => \A i \in 1..Len(Run.out) : Run.src[i][1] # k

\* ---- C28
\* The step in which turn t starts: its first next() reads the registry.
Starts(t) == chat[t].pc = "suspendedStart" /\ chat'[t].pc = "setup"

\* C28: a turn reads the registry once, when it starts, under its
\* conversation identifier; its argument list has the resume flag exactly
\* when that read gave a non-empty token, then followed by that token, which
\* a session_init of another turn with the same identifier issued; the
\* argument list of an invoked turn never changes, whatever session_init the
\* turn observes.
C28_ResumeOnlyFromRegistry ==
  /\ [](\A t \in Turns :
          Invoked(t) =>
            /\ HasResumeFlag(cli[t].args) <=> Truthy(chat[t].existingSessionId)
            /\ HasResumeFlag(cli[t].args)
                 => /\ HasResume(cli[t].args, chat[t].existingSessionId)
                    /\ \E a \in Turns \ {t} :
                         /\ chat[a].conversationId = chat[t].conversationId
                         /\ chat[t].existingSessionId \in IssuedIn(a))
  /\ [][\A t \in Turns :
          /\ Starts(t) =>
               /\ chat'[t].conversationId \in DOMAIN sessionMap
                    => chat'[t].existingSessionId = sessionMap[chat'[t].conversationId]
               /\ chat'[t].conversationId \notin DOMAIN sessionMap
                    => chat'[t].existingSessionId = Undefined
          /\ chat[t].pc \notin {"none", "suspendedStart"}
               => chat'[t].existingSessionId = chat[t].existingSessionId
          /\ Invoked(t) => cli'[t].args = cli[t].args]_vars

\* The second turn of a conversation was invoked with the token the first
\* turn had stored, then observed a session_init with another token that
\* replaced the entry of the registry: its argument list still resumes the
\* first token.
C28_Witness ==
  /\ Follows("t1", "t2") /\ Invoked("t2")
  /\ IssuedIn("t1") = {"T1"}
  /\ HasResume(cli["t2"].args, "T1")
  /\ IssuedIn("t2") = {"T2"}
  /\ sessionMap[chat["t2"].conversationId] = "T2"

\* ---- C29
\* The lines of a stream: its text split at the line feeds, the last piece
\* (the fragment no line feed ends) kept only when it does not trim to ''.
LinesOf(stream) ==
  LET pieces == Split(Decode(stream)) IN
  SubSeq(pieces, 1, Len(pieces) - 1)
    \o (IF TrimsToEmpty(Last(pieces)) THEN <<>> ELSE <<Last(pieces)>>)

\* C29: whatever the chunks a stream of bytes arrives in, the lines that
\* readLines has yielded when it completes are the lines of the stream.
C29_ChunkingIndependent ==
  reader.pc = "completed" => reader.out = LinesOf(reader.stream)

\* ---- C30
\* C30: the result queue and the waiter list of a relay are never both
\* non-empty; a step that queues a result starts with no waiter registered
\* and registers none, and a step that registers a waiter starts with no
\* result queued and queues none.
C30_QueueOrWaiters ==
  /\ [](Relay.resultQueue = <<>> \/ Relay.resultWaiters = <<>>)
  /\ [][/\ Len(Relay'.resultQueue) > Len(Relay.resultQueue)
             => Relay.resultWaiters = <<>> /\ Relay'.resultWaiters = <<>>
        /\ Len(Relay'.resultWaiters) > Len(Relay.resultWaiters)
             => Relay.resultQueue = <<>> /\ Relay'.resultQueue = <<>>]_vars

\* A first caller registered and timed out; the first result was then queued
\* and taken by a second caller at once; the second result is queued, no
\* waiter being registered.
C30_Witness ==
  /\ Len(Relay.calls) = 2
  /\ Relay.calls[1].rejected
  /\ Relay.calls[2].resolved /\ Relay.calls[2].value = Relay.handed[1]
  /\ Len(Relay.handed) = 2
  /\ Relay.resultQueue = <<Relay.handed[2]>>
  /\ Relay.resultWaiters = <<>>

\* ---- C31
\* C31: of the results handed to onToolResult, each is with one caller of
\* waitForResult or in the queue: the resolved calls and the queue together
\* hold as many results as were handed over, the k-th resolved call holds the
\* k-th of them and the queue the rest, in order.  A step that hands a
\* result over resolves one call with it or appends it to the queue; a step
\* that takes a result off the queue takes its head and resolves one new call
\* with it; no other step changes the queue, and a resolved call keeps its
\* value.  A call that finds a result queued gets it whatever tool call
\* caused its execution.
C31_ResultsDeliveredOnce ==
  /\ [](/\ Cardinality(ResolvedCalls(TurnRelay)) + Len(TurnRelay.resultQueue) = Len(TurnRelay.handed)
        /\ \A k \in 1..Len(TurnRelay.resultQueue) :
             TurnRelay.resultQueue[k] = TurnRelay.handed[Cardinality(ResolvedCalls(TurnRelay)) + k]
        /\ \A w \in 1..Len(TurnRelay.calls) :
             TurnRelay.calls[w].resolved
               => TurnRelay.calls[w].value
                    = TurnRelay.handed[Cardinality({v \in 1..w : TurnRelay.calls[v].resolved})]
        /\ \A w \in 1..Len(TurnRelay.calls) :
             ~(TurnRelay.calls[w].resolved /\ TurnRelay.calls[w].rejected))
  /\ [][/\ Len(TurnRelay'.handed) > Len(TurnRelay.handed)
             => /\ Len(TurnRelay'.handed) = Len(TurnRelay.handed) + 1
                /\ \/ /\ TurnRelay'.resultQueue
                            = Append(TurnRelay.resultQueue, Last(TurnRelay'.handed))
                      /\ Cardinality(ResolvedCalls(TurnRelay')) = Cardinality(ResolvedCalls(TurnRelay))
                   \/ /\ TurnRelay'.resultQueue = TurnRelay.resultQueue
                      /\ Cardinality(ResolvedCalls(TurnRelay')) = Cardinality(ResolvedCalls(TurnRelay)) + 1
        /\ Len(TurnRelay'.resultQueue) < Len(TurnRelay.resultQueue)
             => /\ TurnRelay'.resultQueue = Tail(TurnRelay.resultQueue)
                /\ Len(TurnRelay'.calls) = Len(TurnRelay.calls) + 1
                /\ Last(TurnRelay'.calls).resolved
                /\ Last(TurnRelay'.calls).value = Head(TurnRelay.resultQueue)
        /\ Len(TurnRelay'.handed) = Len(TurnRelay.handed)
             => Len(TurnRelay'.resultQueue) <= Len(TurnRelay.resultQueue)
        /\ \A w \in 1..Len(TurnRelay.calls) :
             TurnRelay.calls[w].resolved
               => /\ TurnRelay'.calls[w].resolved
                  /\ TurnRelay'.calls[w].value = TurnRelay.calls[w].value]_vars

\* The wait for the result of tool call c1 timed out and its tool_end was
\* degraded; the execution for c1 completed afterwards and its result was
\* queued; the wait of the next tool call, c2, whose own execution has not
\* completed, got that result at once, and the tool_end of c2 carries it.
C31_Witness ==
  /\ Len(TurnRelay.calls) = 2
  /\ TurnRelay.calls[1].rejected
  /\ TurnRelay.calls[2].resolved
  /\ Len(TurnRelay.handed) = 1
  /\ TurnRelay.resultQueue = <<>>
  /\ ResultsOf("t1", "c1") = {TurnRelay.handed[1]}
  /\ ResultsOf("t1", "c2") = {}
  /\ Len(Turn.out) = 4
  /\ Turn.out[1].type = "tool_start" /\ Turn.out[1].toolCallId = "c1"
  /\ Turn.out[2].type = "tool_end" /\ Turn.out[2].output = Degraded
  /\ Turn.out[3].type = "tool_start" /\ Turn.out[3].toolCallId = "c2"
  /\ Turn.out[4].type = "tool_end" /\ Turn.out[4].toolCallId = "c2"
  /\ Turn.out[4].output = TurnRelay.handed[1]

\* ---- C32
\* Call w of waitForResult was made and its promise is settled.
IsSettled(r, w) ==
  w <= Len(r.calls) /\ (r.calls[w].resolved \/ r.calls[w].rejected)

\* C32: every call of waitForResult is settled in the end, resolved with a
\* result or rejected by its timer, never both, and a settled call stays as
\* it is; and streamChat, once it awaits the result of a bridged tool, goes
\* on in the end.
C32_WaitSettlesOnce ==
  /\ \A w \in 1..(2 * MaxToolLines) :
       (w <= Len(TurnRelay.calls)) ~> IsSettled(TurnRelay, w)
  /\ (Turn.pc = "awaitResult") ~> (Turn.pc # "awaitResult")
  /\ [](\A w \in 1..Len(TurnRelay.calls) :
          ~(TurnRelay.calls[w].resolved /\ TurnRelay.calls[w].rejected))
  /\ [][\A w \in 1..Len(TurnRelay.calls) :
          IsSettled(TurnRelay, w) => TurnRelay'.calls[w] = TurnRelay.calls[w]]_vars

\* The agent named two bridged tools that the relay never got a request
\* for: both calls of waitForResult were rejected by their timers, both
\* tool_ends are the degraded one, and the turn went on to its end.
C32_Witness ==
  /\ TurnRelay.requests = <<>>
  /\ Len(TurnRelay.calls) = 2
  /\ \A w \in 1..2 : TurnRelay.calls[w].rejected /\ ~TurnRelay.calls[w].resolved
  /\ Len(Turn.out) = 5
  /\ Turn.out[1].type = "tool_start"
  /\ Turn.out[2].type = "tool_end" /\ Turn.out[2].output = Degraded
  /\ Turn.out[3].type = "tool_start"
  /\ Turn.out[4].type = "tool_end" /\ Turn.out[4].output = Degraded
  /\ Turn.out[5].type = "done"
  /\ Turn.pc = "finished" /\ ~Turn.abandoned

\* ---- C33
\* A line that JSON.parse accepts and on which reading the fields of its
\* type throws: the value null (event.type), a delta record without a delta
\* (event.delta.type), an assistant record without a content list
\* (event.message.content).
Throws(line) ==
  \/ line.raw = "null"
  \/ /\ line.raw = "object"
     /\ \/ line.type = "content_block_delta" /\ line.delta = Undefined
        \/ line.type = "assistant" /\ ~line.hasContent

\* The run has handled line k by yielding one error event and ending: the
\* error is the only event of the line and the last of the sequence, and no
\* later line has been read.
EndedInErrorAt(k) ==
  /\ Run.pos = k
  /\ CausedBy(Run, k) = {Len(Run.out)}
  /\ Last(Run.out) = ErrorEvent(<<"TypeError">>)
  /\ Run.pc \in {"yieldedLast", "completed"}

\* C33 (as amended): a line that parses as JSON and on which reading the
\* fields of its type throws is not skipped: runClaudeCode yields one error
\* event for it and ends, and the lines after it are never processed.
C33_ThrowingLineEndsRun ==
  \A k \in 1..Run.pos : Throws(Proc.stdout[k]) => EndedInErrorAt(k)

\* C33 (as stated): the same for every line that parses as JSON and is not
\* a well-shaped record of a recognized type.
C33_IllShapedLineEndsRun ==
  \A k \in 1..Run.pos :
    Parses(Proc.stdout[k]) /\ ~WellShaped(Proc.stdout[k]) => EndedInErrorAt(k)

\* After a text delta the subprocess wrote null and then a successful result
\* record: the sequence is the content and one error, the run is over and
\* the result record was never read.
C33_Witness ==
  /\ Len(Proc.stdout) = 3
  /\ Proc.stdout[2].raw = "null"
  /\ Proc.stdout[3].type = "result" /\ ~Proc.stdout[3].is_error
  /\ Run.pc = "completed"
  /\ Run.pos = 2
  /\ Len(Run.out) = 2
  /\ Run.out[1].type = "content"
  /\ Run.out[2].type = "error"

\* ---- C34
\* No user or system message of the history has content.
NoContent(messages) ==
  \A i \in 1..Len(messages) :
    ~(messages[i].role \in {"user", "system"} /\ Truthy(messages[i].content))

\* The body of the turn has started: the first next() was made, which a
\* consumer that calls return() on the fresh generator never does.
BodyStarted ==
  /\ Turn.pc \notin {"none", "suspendedStart"}
  /\ ~(Turn.pc = "finished" /\ Turn.abandoned /\ Turn.out = <<>>)

\* C34: when no prompt can be built from the messages (no user or system
\* message has content), streamChat yields exactly one error event and
\* ends: no relay listens, no file is written, runClaudeCode is not called
\* and no subprocess spawned, and the session registry is neither read nor
\* written.
C34_NoPromptOneError ==
  BodyStarted /\ NoContent(Turn.messages) =>
    /\ Turn.out = <<ErrorEvent(<<"No message content found">>)>>
    /\ Turn.pc \in {"yieldedNoPrompt", "finished"}
    /\ ~Turn.relay /\ TurnRelay = NoRelay
    /\ Turn.created = {} /\ Turn.mcpConfigPath = Undefined
    /\ Run = NoFrame /\ Proc = NoChild
    /\ Turn.conversationId = Undefined /\ Turn.existingSessionId = Undefined
    /\ sessionMap \in PromptRegistries

\* A history of an assistant message with content and a user message
\* without, in a registry that holds a session for the conversation: the
\* turn has ended after its one error.
C34_Witness ==
  /\ Turn.messages = <<Message("assistant", "text"), Message("user", "")>>
  /\ Turn.pc = "finished"
  /\ ~Turn.abandoned
  /\ Len(Turn.out) = 1
  /\ Turn.out[1].type = "error"
  /\ "c1" \in DOMAIN sessionMap

\* ---- C35
\* The set-up of the turn is over.
SetupOver ==
  /\ Turn.pc \notin {"none", "suspendedStart", "setup"}
  /\ ~(Turn.pc = "finished" /\ Turn.abandoned /\ Turn.out = <<>>)

BridgeFlags == {"--mcp-config", "--allowedTools", "mcp__stina-tools__*"}

\* The error events of the turn are errors runClaudeCode yielded.
ErrorsFromCli ==
  \A i \in 1..Len(Turn.out) :
    Turn.out[i].type = "error" =>
      \E j \in 1..Len(Run.out) :
        Run.out[j].type = "error" /\ Run.out[j].message = Turn.out[i].message

\* C35: if setting up the tool bridge fails at any step (listing tools,
\* starting the relay, writing the config file), the turn continues without
\* bridged tools: runClaudeCode is called with neither a config path nor an
\* allow-list and its argument list has neither flag, no error event is
\* yielded because of the failure, and a relay that had been started before
\* the failing step is closed when the turn ends.
C35_FailedSetupGoesOn ==
  SetupOver =>
    /\ Run.pc # "none"
    /\ Run.opts.mcpConfigPath = Undefined /\ ~Run.opts.hasAllowedTools
    /\ \A i \in 1..Len(Run.args) : Run.args[i] \notin BridgeFlags
    /\ ErrorsFromCli
    /\ Turn.pc = "finished" =>
         TurnRelay.state = (IF Turn.relay THEN "closed" ELSE "none")

\* The config file could not be written after the relay had started: the
\* subprocess ran without the flags, the turn surfaced its text and ended
\* with done, and the relay is closed.
C35_Witness ==
  /\ Turn.relay
  /\ Turn.mcpConfigPath = Undefined
  /\ Turn.pc = "finished"
  /\ ~Turn.abandoned
  /\ Invoked("t1")
  /\ Len(Run.args) > 0
  /\ \A i \in 1..Len(Run.args) : Run.args[i] \notin BridgeFlags
  /\ Len(Turn.out) = 2
  /\ Turn.out[1].type = "content"
  /\ Turn.out[2].type = "done"
  /\ TurnRelay.state = "closed"
  /\ TurnRelay.closeCalls = 1

\* ---- C36
\* The positions of the tool_start events of a sequence, in order.
StartsAt(events) ==
  SelectSeq([i \in 1..Len(events) |-> i],
            LAMBDA i : events[i].type = "tool_start")

\* The k-th tool_start of the turn goes to the relay: a relay is set and the
\* name runClaudeCode gave it has the prefix.
GoesToRelay(k) ==
  Turn.relay /\ StartsWithPrefix(Run.out[StartsAt(Run.out)[k]].name)

\* The tool_start events of the turn that went to the relay.
RelayStarts == {k \in 1..Len(StartsAt(Turn.out)) : GoesToRelay(k)}

\* A step in which streamChat handles the tool_start of a tool that does not
\* go to the relay: it yields the tool_start or, on the next(), the tool_end.
BuiltinStep ==
  /\ chat' # chat
  /\ \/ Turn'.pc = "yieldedBuiltinStart"
     \/ Turn.pc = "yieldedBuiltinStart" /\ Turn'.pc = "yielded"

\* C36: a tool_start whose name lacks the prefix, or any tool_start when no
\* relay is set, is surfaced with its name unchanged and followed at once by
\* a tool_end with output completed; handling it calls waitForResult not at
\* all and leaves the result queue and the waiter list of the relay as they
\* were.  Only a prefixed tool_start with a relay set is surfaced with the
\* prefix stripped, and only such tool_starts call waitForResult, at most
\* once each.
C36_BuiltinNeverWaits ==
  /\ [](\A k \in 1..Len(StartsAt(Turn.out)) :
          LET e == Run.out[StartsAt(Run.out)[k]]
              i == StartsAt(Turn.out)[k]
          IN  IF GoesToRelay(k)
                THEN Turn.out[i] = ToolStartEvent(StripPrefix(e.name), e.toolCallId)
                ELSE /\ Turn.out[i] = ToolStartEvent(e.name, e.toolCallId)
                     /\ i < Len(Turn.out) =>
                          Turn.out[i + 1] =
                            ToolEndEvent(e.name, e.toolCallId, "completed"))
  /\ [](/\ Len(StartsAt(Turn.out)) <= Len(StartsAt(Run.out))
        /\ Len(TurnRelay.calls) <= Cardinality(RelayStarts))
  /\ [][BuiltinStep =>
          /\ TurnRelay'.calls = TurnRelay.calls
          /\ TurnRelay'.resultQueue = TurnRelay.resultQueue
          /\ TurnRelay'.resultWaiters = TurnRelay.resultWaiters]_vars

\* With a relay set, the wait for the bridged tool c1 timed out, its result
\* arrived late and is queued, and the built-in tool c2 of the same message
\* was then surfaced as Read and ended with completed: the queue still holds
\* the result and waitForResult was called once.
C36_Witness ==
  /\ Turn.relay
  /\ Len(Turn.out) = 4
  /\ Turn.out[1] = ToolStartEvent(<<"x">>, "c1")
  /\ Turn.out[2] = ToolEndEvent(<<"x">>, "c1", "completed")
  /\ Turn.out[3] = ToolStartEvent(<<"Read">>, "c2")
  /\ Turn.out[4] = ToolEndEvent(<<"Read">>, "c2", "completed")
  /\ Len(TurnRelay.resultQueue) = 1
  /\ Len(TurnRelay.calls) = 1
  /\ TurnRelay.calls[1].rejected

====
